---- MODULE Spec2Model ----
(***************************************************************************)
(* Attendance verification subsystem of SMART-CAMPUS-ENGAGEMENT            *)
(* (backend/app/services/attendance_service.py and its repositories,       *)
(* models and routers), as a state machine over the database tables.       *)
(*                                                                         *)
(* The tables are the variables; every service method is one action, or,   *)
(* for POST /attendance/mark, one action per stretch of the handler        *)
(* between two points where another request can commit.  Database          *)
(* constraints (UniqueConstraint, ForeignKey ondelete) are part of the     *)
(* actions that write the constrained table.                               *)
(*                                                                         *)
(* Positions: every location lies on one meridian and is measured in       *)
(* metres of arc from a reference parallel; there the haversine formula    *)
(* reduces to R * |delta phi|, the difference of the two positions.        *)
(* Time: attendance dates are day numbers, day 0 is a Saturday; the time   *)
(* of day is a tick number.                                                *)
(***************************************************************************)
EXTENDS Integers, Sequences, FiniteSets, TLC

(* ------------------------------ bounds -------------------------------- *)
NumStudents == 2
MaxPhotos == 3
MaxGeofences == 2
MaxWindows == 1
MaxDay == 1
MaxTime == 1
MaxInFlight == 3
MaxLog == 2
MaxPolicyLog == 1
MaxGateLog == 1
MaxThrottleLog == 6
MaxRemarkLog == 3
MaxStatsDay == 6
MaxStatsHolidays == 1
MaxAdmins == 1
MaxSettingsDay == 5
MaxBulkLines == 2
MaxPosition == 11
MaxOverlapLog == 7
MaxRaceLog == 1

(* --------------------------- program constants ------------------------ *)
MAX_DAILY_ATTEMPTS == 5

Students == 1..NumStudents
Days == 0..MaxDay
Slots == 1..MaxInFlight
Admins == 1..MaxAdmins
None == "None"

\* ProfilePhotoStatus
PENDING == "PENDING"
APPROVED == "APPROVED"
REJECTED == "REJECTED"

\* AttendanceStatus
PRESENT == "PRESENT"
ABSENT == "ABSENT"

ReplacedReason == "Replaced by new approved photo"
DefaultRejectReason == "Photo rejected by admin"

\* User.student_category (nullable): student 1 is a hosteller, the others
\* have no category.
student_category(s) == IF s = 1 THEN "HOSTELLER" ELSE None

\* date.weekday(): 0 = Monday .. 6 = Sunday; day 0 is a Saturday.
weekday(d) == (d + 5) % 7

VARIABLES
    profile_photos,       \* table profile_photos: set of rows
    nextPhotoId,          \* primary-key sequence of profile_photos
    campus_geofences,     \* table campus_geofences: set of rows
    nextGeofenceId,       \* primary-key sequence of campus_geofences
    attendance_windows,   \* table attendance_windows: set of rows
    nextWindowId,         \* primary-key sequence of attendance_windows
    holidays,             \* table holidays: set of rows, date unique
    attendance_records,   \* table attendance_records: set of committed rows
    attendance_attempts,  \* table attendance_attempts: committed rows in id order
    today,                \* date.today()
    now,                  \* datetime.now().time()
    pc,                   \* pc[s][k]: where request k of student s stands
    req,                  \* req[s][k]: what request k of student s holds
    lastResp,             \* what the last handler answered
    attendance_settings,  \* table attendance_settings: set of rows, key unique
    put_settings,         \* put_settings[a]: what the settings update of admin a holds
    bulk_import           \* what the holiday bulk import being served holds

photoVars == <<profile_photos, nextPhotoId>>
geoVars == <<campus_geofences, nextGeofenceId>>
windowVars == <<attendance_windows, nextWindowId>>
clockVars == <<today, now>>
markVars == <<attendance_records, pc, req>>
settingsVars == <<attendance_settings, put_settings>>
vars == <<profile_photos, nextPhotoId, campus_geofences, nextGeofenceId,
          attendance_windows, nextWindowId, holidays, attendance_records,
          attendance_attempts, today, now, pc, req, lastResp,
          attendance_settings, put_settings, bulk_import>>

\* What an administration handler answers: the exception it raised, or "ok".
Raise(kind) == [op |-> "admin", kind |-> kind, detail |-> None]

Done == [op |-> "admin", kind |-> "ok", detail |-> None]

Resp(op, kind, detail) == [op |-> op, kind |-> kind, detail |-> detail]

(* ======================= ProfilePhoto ================================= *)

\* A constraint on the approved photos alone.
uq_approved_only(ps) ==
    \A p \in ps : \A q \in ps :
        (p.id # q.id /\ p.status = APPROVED)
            => ~(p.student_id = q.student_id /\ p.status = q.status)

\* __table_args__ = (UniqueConstraint('student_id', 'status'),): what the
\* database accepts at a flush.
uq_student_approved_photo(ps) ==
    \A p \in ps : \A q \in ps :
        (p.id # q.id) => ~(p.student_id = q.student_id /\ p.status = q.status)

\* ProfilePhotoRepository.get_approved_photo_for_student: the set of rows the
\* query selects (scalar_one_or_none's argument).
get_approved_photo_for_student(ps, s) ==
    {p \in ps : p.student_id = s /\ p.status = APPROVED}

\* AttendanceService.upload_profile_photo
\*   faces:   what detect_faces finds in the stored upload
\*   encoded: whether extract_face_encoding returns an encoding
upload_profile_photo(s, faces, encoded) ==
    LET photo == [id |-> nextPhotoId, student_id |-> s, status |-> PENDING,
                  rejection_reason |-> None, reviewed |-> FALSE]
    IN  /\ IF faces # 1 \/ ~encoded
             THEN /\ lastResp' = Raise("ValueError")   \* face validation
                  /\ UNCHANGED photoVars
           ELSE IF ~uq_student_approved_photo(profile_photos \cup {photo})
             THEN /\ lastResp' = Raise("IntegrityError")   \* at flush
                  /\ UNCHANGED photoVars
           ELSE /\ lastResp' = Done
                /\ profile_photos' = profile_photos \cup {photo}
                /\ nextPhotoId' = nextPhotoId + 1
        /\ UNCHANGED <<geoVars, windowVars, holidays, attendance_attempts,
                       clockVars, markVars, settingsVars, bulk_import>>

SetPhoto(ps, old, new) == (ps \ {old}) \cup {new}

\* A test that takes every photo for an unreviewed one.
already_reviewed_never(photo) == FALSE

\* "if photo.status != ProfilePhotoStatus.PENDING"
already_reviewed(photo) == photo.status # PENDING

\* AttendanceService.review_profile_photo
review_profile_photo(photo_id, approved, rejection_reason) ==
    LET found == {p \in profile_photos : p.id = photo_id} IN
    /\ IF found = {}
         THEN /\ lastResp' = Raise("ValueError")   \* not found
              /\ UNCHANGED photoVars
       ELSE LET photo == CHOOSE p \in found : TRUE IN
         IF already_reviewed(photo)
           THEN /\ lastResp' = Raise("ValueError")   \* already reviewed
                /\ UNCHANGED photoVars
         ELSE IF approved
           THEN LET existing == {e \in get_approved_photo_for_student(profile_photos, photo.student_id) :
                                    e.id # photo.id}
                    \* first flush: the previous approved photo is demoted
                    demoted == IF existing = {} THEN profile_photos
                               ELSE LET e == CHOOSE e \in existing : TRUE
                                    IN SetPhoto(profile_photos, e,
                                         [e EXCEPT !.status = REJECTED,
                                                   !.rejection_reason = ReplacedReason])
                    \* second flush: the reviewed photo is approved
                    done == SetPhoto(demoted, photo,
                                [photo EXCEPT !.status = APPROVED, !.reviewed = TRUE])
                IN IF ~uq_student_approved_photo(demoted) \/ ~uq_student_approved_photo(done)
                     THEN /\ lastResp' = Raise("IntegrityError")   \* at flush
                          /\ UNCHANGED photoVars
                   ELSE /\ lastResp' = Done
                        /\ profile_photos' = done
                        /\ UNCHANGED nextPhotoId
         ELSE LET done == SetPhoto(profile_photos, photo,
                             [photo EXCEPT !.status = REJECTED,
                                 !.rejection_reason =
                                     IF rejection_reason = None THEN DefaultRejectReason
                                     ELSE rejection_reason,
                                 !.reviewed = TRUE])
              IN IF ~uq_student_approved_photo(done)
                   THEN /\ lastResp' = Raise("IntegrityError")   \* at flush
                        /\ UNCHANGED photoVars
                 ELSE /\ lastResp' = Done
                      /\ profile_photos' = done
                      /\ UNCHANGED nextPhotoId
    /\ UNCHANGED <<geoVars, windowVars, holidays, attendance_attempts,
                   clockVars, markVars, settingsVars, bulk_import>>

(* ======================= CampusGeofence =============================== *)

\* GeofenceRepository.get_primary_active_geofence: the rows the query selects.
\* scalar_one_or_none answers None for no row, the row for one, and raises
\* MultipleResultsFound for more.
get_primary_active_geofence(gs) == {g \in gs : g.is_active /\ g.is_primary}

\* AttendanceService.create_geofence (GeofenceCreate: is_active is not a
\* field, the column default True applies)
create_geofence(data) ==
    LET geofence == [id |-> nextGeofenceId, latitude |-> data.latitude,
                     radius_meters |-> data.radius_meters,
                     accuracy_threshold |-> data.accuracy_threshold,
                     is_active |-> TRUE, is_primary |-> data.is_primary]
        primary == get_primary_active_geofence(campus_geofences)
    IN  /\ IF data.is_primary /\ Cardinality(primary) > 1
             THEN /\ lastResp' = Raise("MultipleResultsFound")
                  /\ UNCHANGED geoVars
           ELSE /\ lastResp' = Done
                /\ campus_geofences' =
                     (IF data.is_primary
                        THEN {IF g \in primary THEN [g EXCEPT !.is_primary = FALSE] ELSE g :
                                 g \in campus_geofences}
                      ELSE campus_geofences) \cup {geofence}
                /\ nextGeofenceId' = nextGeofenceId + 1
        /\ UNCHANGED <<photoVars, windowVars, holidays, attendance_attempts,
                       clockVars, markVars, settingsVars, bulk_import>>

\* The fields a GeofenceUpdate carries (model_dump(exclude_unset=True)) are
\* data.fields; setattr copies each of them.
ApplyUpdate(g, data) ==
    [id |-> g.id,
     latitude |-> IF "latitude" \in data.fields THEN data.latitude ELSE g.latitude,
     radius_meters |-> IF "radius_meters" \in data.fields THEN data.radius_meters
                       ELSE g.radius_meters,
     accuracy_threshold |-> IF "accuracy_threshold" \in data.fields
                            THEN data.accuracy_threshold ELSE g.accuracy_threshold,
     is_active |-> IF "is_active" \in data.fields THEN data.is_active ELSE g.is_active,
     is_primary |-> IF "is_primary" \in data.fields THEN data.is_primary ELSE g.is_primary]

\* AttendanceService.update_geofence
update_geofence(geofence_id, data) ==
    LET found == {g \in campus_geofences : g.id = geofence_id} IN
    /\ IF found = {}
         THEN /\ lastResp' = Raise("ValueError")   \* not found
              /\ UNCHANGED geoVars
       ELSE LET g == CHOOSE g \in found : TRUE IN
            /\ lastResp' = Done
            /\ campus_geofences' = (campus_geofences \ {g}) \cup {ApplyUpdate(g, data)}
            /\ UNCHANGED nextGeofenceId
    /\ UNCHANGED <<photoVars, windowVars, holidays, attendance_attempts,
                   clockVars, markVars, settingsVars, bulk_import>>

\* AttendanceService.delete_geofence (GeofenceRepository.delete removes the
\* row; AttendanceAttempt.geofence_id is a ForeignKey with ondelete="SET NULL",
\* NULL being geofence_id 0.  The DELETE waits for a transaction that holds
\* an uncommitted attempt referencing the row.)
delete_geofence(geofence_id) ==
    LET found == {g \in campus_geofences : g.id = geofence_id} IN
    IF found = {}
      THEN /\ lastResp' = Raise("ValueError")   \* not found
           /\ UNCHANGED <<geoVars, attendance_attempts>>
           /\ UNCHANGED <<photoVars, windowVars, holidays, clockVars, markVars, settingsVars, bulk_import>>
    ELSE /\ \A s \in Students : \A k \in Slots :
                pc[s][k] = "gated" => req[s][k].attempt.geofence_id # geofence_id
         /\ lastResp' = Done
         /\ campus_geofences' = campus_geofences \ found
         /\ attendance_attempts' =
               [i \in DOMAIN attendance_attempts |->
                   IF attendance_attempts[i].geofence_id = geofence_id
                     THEN [attendance_attempts[i] EXCEPT !.geofence_id = 0]
                   ELSE attendance_attempts[i]]
         /\ UNCHANGED nextGeofenceId
         /\ UNCHANGED <<photoVars, windowVars, holidays, clockVars, markVars, settingsVars, bulk_import>>


(* ======================= AttendanceWindow ============================= *)

\* AttendanceService.create_attendance_window
create_attendance_window(data) ==
    /\ attendance_windows' = attendance_windows \cup
          {[id |-> nextWindowId, start_time |-> data.start_time,
            end_time |-> data.end_time, days_of_week |-> data.days_of_week,
            student_category |-> data.student_category, is_active |-> data.is_active]}
    /\ nextWindowId' = nextWindowId + 1
    /\ lastResp' = Done
    /\ UNCHANGED <<photoVars, geoVars, holidays, attendance_attempts,
                   clockVars, markVars, settingsVars, bulk_import>>

\* AttendanceService.delete_attendance_window
delete_attendance_window(window_id) ==
    LET found == {w \in attendance_windows : w.id = window_id} IN
    /\ IF found = {}
         THEN /\ lastResp' = Raise("ValueError")   \* not found
              /\ UNCHANGED windowVars
       ELSE /\ lastResp' = Done
            /\ attendance_windows' = attendance_windows \ found
            /\ UNCHANGED nextWindowId
    /\ UNCHANGED <<photoVars, geoVars, holidays, attendance_attempts,
                   clockVars, markVars, settingsVars, bulk_import>>

\* AttendanceWindowRepository.get_active_windows: "if category:" filters only
\* for a student who has a category.
get_active_windows(ws, category) ==
    {w \in ws : /\ w.is_active
                /\ (category # None =>
                      (w.student_category = category \/ w.student_category = None))}

\* A comparison that leaves the end of the window out.
is_within_time_window_exclusive(windows, current_time, current_day) ==
    \E w \in windows :
        /\ current_day \in w.days_of_week
        /\ w.start_time <= current_time
        /\ current_time < w.end_time

\* AttendanceService._is_within_time_window
is_within_time_window(windows, current_time, current_day) ==
    \E w \in windows :
        /\ current_day \in w.days_of_week
        /\ w.start_time <= current_time
        /\ current_time <= w.end_time

(* ======================= Holiday ====================================== *)

\* A lookup that forgets the soft delete.
get_by_date_any(hs, target_date) == {h \in hs : h.date = target_date}

\* HolidayRepository.get_by_date: the active holiday rows of the date
get_by_date(hs, target_date) == {h \in hs : h.date = target_date /\ h.is_active}

\* AttendanceService.create_holiday (Holiday.date is unique: the INSERT of a
\* date that an inactive row still holds is refused by the database)
create_holiday(date) ==
    /\ IF get_by_date(holidays, date) # {}
         THEN /\ lastResp' = Raise("ValueError")   \* already exists
              /\ UNCHANGED holidays
       ELSE IF \E h \in holidays : h.date = date
         THEN /\ lastResp' = Raise("IntegrityError")   \* at commit
              /\ UNCHANGED holidays
       ELSE /\ lastResp' = Done
            /\ holidays' = holidays \cup {[date |-> date, is_active |-> TRUE]}
    /\ UNCHANGED <<photoVars, geoVars, windowVars, attendance_attempts,
                   clockVars, markVars, settingsVars, bulk_import>>

\* AttendanceService.delete_holiday (HolidayRepository.delete: soft delete);
\* the holiday is named by its date, which is unique.
delete_holiday(date) ==
    /\ IF ~(\E h \in holidays : h.date = date)
         THEN /\ lastResp' = Raise("HTTP 404")
              /\ UNCHANGED holidays
       ELSE /\ lastResp' = Done
            /\ holidays' = {IF h.date = date THEN [h EXCEPT !.is_active = FALSE] ELSE h :
                               h \in holidays}
    /\ UNCHANGED <<photoVars, geoVars, windowVars, attendance_attempts,
                   clockVars, markVars, settingsVars, bulk_import>>

(* ----------------------- holiday bulk import ------------------------- *)

\* month_map of AttendanceService.bulk_create_holidays
month_map ==
    [jan |-> 1, january |-> 1, feb |-> 2, february |-> 2, mar |-> 3, march |-> 3,
     apr |-> 4, april |-> 4, may |-> 5, jun |-> 6, june |-> 6, jul |-> 7, july |-> 7,
     aug |-> 8, august |-> 8, sep |-> 9, sept |-> 9, september |-> 9,
     oct |-> 10, october |-> 10, nov |-> 11, november |-> 11,
     dec |-> 12, december |-> 12]

\* The year whose January 1 is day 0 (a Saturday).
EpochYear == 2022

is_leap(year) == year % 4 = 0 /\ (year % 100 # 0 \/ year % 400 = 0)

days_in_month(year, month) ==
    IF month = 2 THEN (IF is_leap(year) THEN 29 ELSE 28)
    ELSE IF month \in {4, 6, 9, 11} THEN 30 ELSE 31

RECURSIVE days_before_month(_, _)
days_before_month(year, month) ==
    IF month <= 1 THEN 0
    ELSE days_in_month(year, month - 1) + days_before_month(year, month - 1)

leap_years_through(year) == (year \div 4) - (year \div 100) + (year \div 400)

\* date(year, month, day): the day number, or -1 for the ValueError of the
\* constructor
date_of(year, month, day) ==
    IF year < EpochYear \/ year > 9999 \/ day < 1 \/ day > days_in_month(year, month)
      THEN -1
    ELSE 365 * (year - EpochYear)
         + (leap_years_through(year - 1) - leap_years_through(EpochYear - 1))
         + days_before_month(year, month) + day - 1

\* A line of the pasted text, by what the parser reads in it:
\*   blank:   nothing but white space
\*   header:  holds both "date" and "holiday"
\*   parts:   the number of non-empty parts re.split leaves
\*   month_str, day: the groups of re.match(r'([a-zA-Z]+)\s*(\d+)') on the
\*            first part, lower-cased; month_str "" when there is no match
Line(blank, header, parts, month_str, day) ==
    [blank |-> blank, header |-> header, parts |-> parts,
     month_str |-> month_str, day |-> day]

\* text.strip().split('\n'): the text without the white space at its two
\* ends, so without its leading and trailing blank lines; the empty text
\* splits into one empty line.
RECURSIVE lstrip_lines(_)
lstrip_lines(lines) ==
    IF lines # <<>> /\ Head(lines).blank THEN lstrip_lines(Tail(lines)) ELSE lines

RECURSIVE rstrip_lines(_)
rstrip_lines(lines) ==
    IF lines # <<>> /\ lines[Len(lines)].blank
      THEN rstrip_lines(SubSeq(lines, 1, Len(lines) - 1))
    ELSE lines

strip_split(text) ==
    LET stripped == rstrip_lines(lstrip_lines(text))
    IN IF stripped = <<>> THEN <<Line(TRUE, FALSE, 0, "", 0)>> ELSE stripped

BulkError(line_num, kind) == [line |-> line_num, kind |-> kind]

\* POST /admin/attendance/holidays/bulk, AttendanceService.bulk_create_holidays
\* up to the loop: one bulk import is served at a time.
bulk_create_holidays(text, year) ==
    /\ bulk_import = <<>>
    /\ bulk_import' = [text |-> text, year |-> year, lines |-> strip_split(text),
                       line_num |-> 1, created |-> <<>>, errors |-> <<>>]
    /\ UNCHANGED <<photoVars, geoVars, windowVars, holidays, attendance_attempts,
                   clockVars, markVars, settingsVars, lastResp>>

\* One turn of the loop "for line_num, line in enumerate(lines, 1)";
\* HolidayRepository.create commits the holiday of the line on its own, and
\* "except Exception" takes the database's refusal of a date that an
\* inactive row holds.
bulk_line ==
    /\ bulk_import # <<>>
    /\ bulk_import.line_num <= Len(bulk_import.lines)
    /\ LET line_num == bulk_import.line_num
           line == bulk_import.lines[line_num]
           skip == [bulk_import EXCEPT !.line_num = line_num + 1]
           error(kind) == [skip EXCEPT !.errors = Append(@, BulkError(line_num, kind))]
       IN IF line.blank \/ line.header
            THEN bulk_import' = skip /\ UNCHANGED holidays
          ELSE IF line.parts < 2
            THEN bulk_import' = error("Invalid format") /\ UNCHANGED holidays
          ELSE IF line.month_str = ""
            THEN bulk_import' = error("Could not parse date") /\ UNCHANGED holidays
          ELSE IF line.month_str \notin DOMAIN month_map
            THEN bulk_import' = error("Unknown month") /\ UNCHANGED holidays
          ELSE LET holiday_date == date_of(bulk_import.year, month_map[line.month_str], line.day)
               IN IF holiday_date < 0
                    THEN bulk_import' = error("Invalid date") /\ UNCHANGED holidays
                  ELSE IF get_by_date(holidays, holiday_date) # {}
                    THEN /\ bulk_import' = error("Holiday already exists")
                         /\ UNCHANGED holidays
                  ELSE IF \E h \in holidays : h.date = holiday_date
                    THEN /\ bulk_import' = error("Failed to create")
                         /\ UNCHANGED holidays
                  ELSE /\ bulk_import' = [skip EXCEPT !.created = Append(@, holiday_date)]
                       /\ holidays' = holidays \cup
                             {[date |-> holiday_date, is_active |-> TRUE]}
    /\ UNCHANGED <<photoVars, geoVars, windowVars, attendance_attempts,
                   clockVars, markVars, settingsVars, lastResp>>

\* The return of bulk_create_holidays after the last line
bulk_return ==
    /\ bulk_import # <<>>
    /\ bulk_import.line_num > Len(bulk_import.lines)
    /\ lastResp' = Resp("bulk", "result",
                        [created |-> bulk_import.created,
                         created_count |-> Len(bulk_import.created),
                         errors |-> bulk_import.errors,
                         error_count |-> Len(bulk_import.errors)])
    /\ bulk_import' = <<>>
    /\ UNCHANGED <<photoVars, geoVars, windowVars, holidays, attendance_attempts,
                   clockVars, markVars, settingsVars>>

(* ======================= Clock ======================================== *)

\* The system clock: the time of day advances, and midnight starts a day.
Tick ==
    /\ now < MaxTime
    /\ now' = now + 1
    /\ UNCHANGED <<today, photoVars, geoVars, windowVars, holidays, attendance_attempts,
                   markVars, lastResp, settingsVars, bulk_import>>

Midnight ==
    /\ today < MaxDay
    /\ today' = today + 1
    /\ now' = 0
    /\ UNCHANGED <<photoVars, geoVars, windowVars, holidays, attendance_attempts,
                   markVars, lastResp, settingsVars, bulk_import>>

(* ======================= Marking pipeline ============================= *)

\* A difference that keeps its sign.
haversine_distance_signed(lat1, lat2) == lat1 - lat2

\* AttendanceService._haversine_distance, for two points of one meridian
haversine_distance(lat1, lat2) == IF lat1 >= lat2 THEN lat1 - lat2 ELSE lat2 - lat1

\* AttendanceService._is_within_geofence
is_within_geofence(location, geofence) ==
    haversine_distance(location.latitude, geofence.latitude) <= geofence.radius_meters

\* A lookup that asks for the day before.
get_student_record_for_yesterday(rs, s, d) ==
    {r \in rs : r.student_id = s /\ r.attendance_date = d - 1}

\* AttendanceRecordRepository.get_student_record_for_date: the rows selected
get_student_record_for_date(rs, s, d) ==
    {r \in rs : r.student_id = s /\ r.attendance_date = d}

\* AttendanceAttemptRepository.count_today_attempts
count_today_attempts(s) ==
    Cardinality({i \in DOMAIN attendance_attempts :
                    /\ attendance_attempts[i].student_id = s
                    /\ attendance_attempts[i].attempted_at >= today})

\* A limit test that lets the attempt at the limit through.
attempt_limit_reached_late(attempt_count) == attempt_count > MAX_DAILY_ATTEMPTS

\* "if attempt_count >= self.MAX_DAILY_ATTEMPTS"
attempt_limit_reached(attempt_count) == attempt_count >= MAX_DAILY_ATTEMPTS

\* A check that never finds the day marked.
already_marked_never(existing_record) == FALSE

\* already_marked_today = existing_record is not None and
\*                        existing_record.status == AttendanceStatus.PRESENT
already_marked_today(existing_record) ==
    \E r \in existing_record : r.status = PRESENT

\* AttendanceService.check_attendance_prerequisites: the blockers it collects,
\* and whether get_primary_active_geofence raised MultipleResultsFound.
check_attendance_prerequisites(s) ==
    LET windows == get_active_windows(attendance_windows, student_category(s))
        existing == get_student_record_for_date(attendance_records, s, today)
    IN [raised |-> Cardinality(get_primary_active_geofence(campus_geofences)) > 1,
        blockers |->
            (IF weekday(today) = 6 THEN {"Sunday"} ELSE {})
            \cup (IF get_by_date(holidays, today) # {} THEN {"Holiday"} ELSE {})
            \cup (IF get_approved_photo_for_student(profile_photos, s) = {}
                    THEN {"Profile photo not approved"} ELSE {})
            \cup (IF ~is_within_time_window(windows, now, weekday(today))
                    THEN {"Outside attendance time window"} ELSE {})
            \cup (IF already_marked_today(existing)
                    THEN {"Attendance already marked today"} ELSE {})
            \cup (IF attempt_limit_reached(count_today_attempts(s))
                    THEN {"Maximum attempts reached"} ELSE {})
            \cup (IF get_primary_active_geofence(campus_geofences) = {}
                    THEN {"Campus geofence not configured"} ELSE {})]

\* What the gates of a mark call come to: kind is "fail" (a gate failed),
\* "pass" (all passed) or "raise"; evaluated lists the gates whose check ran.
Outcome(kind, reason, geofence_id, score, evaluated) ==
    [kind |-> kind, failure_reason |-> reason, geofence_id |-> geofence_id,
     face_match_score |-> score, evaluated |-> evaluated]

\* AttendanceService.mark_attendance, GATE 1 to the face match, for the
\* request's location and captured image
run_gates(s, input) ==
    LET primary == get_primary_active_geofence(campus_geofences) IN
    IF Cardinality(primary) > 1
      THEN Outcome("raise", None, 0, -1, <<"G1">>)
    ELSE IF primary = {}
      THEN Outcome("fail", "OUTSIDE_CAMPUS", 0, -1, <<"G1">>)
    ELSE LET geofence == CHOOSE g \in primary : TRUE IN
      IF input.accuracy > geofence.accuracy_threshold
        THEN Outcome("fail", "LOW_GPS_ACCURACY", geofence.id, -1, <<"G1", "G2">>)
      ELSE IF ~is_within_geofence(input, geofence)
        THEN Outcome("fail", "OUTSIDE_CAMPUS", geofence.id, -1, <<"G1", "G2", "G3">>)
      ELSE IF input.faces = 0
        THEN Outcome("fail", "NO_FACE_DETECTED", geofence.id, -1, <<"G1", "G2", "G3", "G4">>)
      ELSE IF input.faces > 1
        THEN Outcome("fail", "MULTIPLE_FACES", geofence.id, -1, <<"G1", "G2", "G3", "G4">>)
      ELSE IF get_approved_photo_for_student(profile_photos, s) = {}
        THEN Outcome("fail", "PROFILE_NOT_APPROVED", geofence.id, -1,
                     <<"G1", "G2", "G3", "G4", "G5">>)
      ELSE IF ~input.is_match
        THEN Outcome("fail", "FACE_MISMATCH", geofence.id, input.score,
                     <<"G1", "G2", "G3", "G4", "G5", "G6">>)
      ELSE Outcome("pass", None, geofence.id, input.score,
                   <<"G1", "G2", "G3", "G4", "G5", "G6">>)

\* AttendanceAttempt(...) as mark_attendance fills it; attempted_at is the
\* server default now() of the INSERT.
Attempt(s, input, out) ==
    [student_id |-> s, attempted_at |-> today, success |-> out.kind = "pass",
     failure_reason |-> out.failure_reason, geofence_id |-> out.geofence_id,
     face_match_score |-> out.face_match_score,
     location_latitude |-> input.latitude, location_accuracy |-> input.accuracy]

\* AttendanceMarkResult
MarkResult(s, success, reason, score, evaluated) ==
    [student_id |-> s, success |-> success, failure_reason |-> reason,
     face_match_score |-> score, evaluated |-> evaluated]

\* POST /attendance/mark, routers/attendance.py mark_attendance up to the
\* pre-check: a blocked request ends with HTTP 400, the others go on to
\* AttendanceService.mark_attendance.
post_mark(s, k) ==
    LET pre == check_attendance_prerequisites(s) IN
    /\ pc[s][k] = "idle"
    /\ \A j \in Slots : j < k => pc[s][j] # "idle"
    /\ IF pre.raised
         THEN /\ lastResp' = Resp("mark", "MultipleResultsFound", s)
              /\ UNCHANGED pc
       ELSE IF pre.blockers # {}
         THEN /\ lastResp' = Resp("mark", "HTTP 400", [student_id |-> s, blockers |-> pre.blockers])
              /\ UNCHANGED pc
       ELSE /\ pc' = [pc EXCEPT ![s][k] = "checked"]
            /\ UNCHANGED lastResp
    /\ UNCHANGED <<photoVars, geoVars, windowVars, holidays, attendance_attempts,
                   attendance_records, req, clockVars, settingsVars, bulk_import>>

\* A session that commits each flush by itself.
get_db_autocommit(flushed, raised) == flushed

\* GET /attendance/pre-check, routers/attendance.py pre_check_attendance:
\* the AttendancePreCheckOut that check_attendance_prerequisites returns.
pre_check_attendance(s) ==
    LET pre == check_attendance_prerequisites(s) IN
    /\ lastResp' =
          IF pre.raised THEN Resp("pre-check", "MultipleResultsFound", s)
          ELSE Resp("pre-check", "result",
                    [student_id |-> s,
                     can_mark |-> pre.blockers = {},
                     blockers |-> pre.blockers,
                     profile_approved |-> "Profile photo not approved" \notin pre.blockers,
                     within_time_window |->
                         "Outside attendance time window" \notin pre.blockers,
                     already_marked_today |->
                         "Attendance already marked today" \in pre.blockers])
    /\ UNCHANGED <<photoVars, geoVars, windowVars, holidays, attendance_attempts,
                   clockVars, markVars, settingsVars, bulk_import>>

\* The unit of work of one request (app.core.database.get_db): the rows the
\* request flushed are committed when the handler returns and rolled back
\* when it raises.
get_db(flushed, raised) == IF raised THEN <<>> ELSE flushed

\* AttendanceService.mark_attendance from its first line to the read of the
\* existing record (the gates and the attempt INSERT)
mark_gates(s, k, input) ==
    LET out == run_gates(s, input)
        attempt == Attempt(s, input, out)
    IN
    /\ pc[s][k] = "checked"
    /\ IF out.kind = "raise"
         THEN /\ pc' = [pc EXCEPT ![s][k] = "idle"]
              /\ lastResp' = Resp("mark", "MultipleResultsFound", s)
              /\ UNCHANGED <<attendance_attempts, req>>
       ELSE IF out.kind = "fail"
         THEN /\ pc' = [pc EXCEPT ![s][k] = "idle"]
              /\ attendance_attempts' = attendance_attempts \o get_db(<<attempt>>, FALSE)
              /\ lastResp' = Resp("mark", "result",
                                  MarkResult(s, FALSE, out.failure_reason,
                                      IF out.failure_reason = "FACE_MISMATCH"
                                        THEN out.face_match_score ELSE -1,
                                      out.evaluated))
              /\ UNCHANGED req
       ELSE /\ pc' = [pc EXCEPT ![s][k] = "gated"]
            /\ req' = [req EXCEPT ![s][k] =
                          [attempt |-> attempt, today |-> today, now |-> now,
                           location_latitude |-> input.latitude,
                           location_accuracy |-> input.accuracy,
                           score |-> input.score, evaluated |-> out.evaluated,
                           existing_record |->
                               LET rows == get_student_record_for_date(
                                               attendance_records, s, today)
                               IN IF rows = {} THEN 0
                                  ELSE (CHOOSE e \in rows : TRUE).id]]
            /\ UNCHANGED <<attendance_attempts, lastResp>>
    /\ UNCHANGED <<photoVars, geoVars, windowVars, holidays, attendance_records, clockVars, settingsVars, bulk_import>>

\* record = AttendanceRecord(...): the row of the INSERT branch; the id is
\* the next value of the table's sequence (rows are never deleted).
NewRecord(s, r) ==
    [id |-> Cardinality(attendance_records) + 1,
     student_id |-> s, attendance_date |-> r.today, status |-> PRESENT,
     marked_at |-> <<r.today, r.now>>, location_latitude |-> r.location_latitude,
     location_accuracy |-> r.location_accuracy, face_match_confidence |-> r.score]

\* An UPDATE branch that resets the status while it refreshes the snapshot.
UpdatedRecordReset(existing_record, r) ==
    [existing_record EXCEPT !.status = ABSENT,
                            !.marked_at = <<r.today, r.now>>,
                            !.location_latitude = r.location_latitude,
                            !.location_accuracy = r.location_accuracy,
                            !.face_match_confidence = r.score]

\* existing_record.status = ...: the fields the UPDATE branch assigns
UpdatedRecord(existing_record, r) ==
    [existing_record EXCEPT !.status = PRESENT,
                            !.marked_at = <<r.today, r.now>>,
                            !.location_latitude = r.location_latitude,
                            !.location_accuracy = r.location_accuracy,
                            !.face_match_confidence = r.score]

\* A table without the constraint.
no_daily_constraint(rs) == TRUE

\* uq_student_daily_attendance: UniqueConstraint('student_id', 'attendance_date')
uq_student_daily_attendance(rs) ==
    \A a \in rs : \A b \in rs :
        (a.student_id = b.student_id /\ a.attendance_date = b.attendance_date) => a = b

\* AttendanceService.mark_attendance, "Create or update attendance record"
\* to the end: UPDATE of the row read, or INSERT, which the database refuses
\* (IntegrityError, not caught) when the row has appeared since the read.
mark_upsert(s, k) ==
    LET r == req[s][k]
        inserted == attendance_records \cup {NewRecord(s, r)}
        result == Resp("mark", "result", MarkResult(s, TRUE, None, r.score, r.evaluated))
    IN
    /\ pc[s][k] = "gated"
    /\ pc' = [pc EXCEPT ![s][k] = "idle"]
    /\ req' = [req EXCEPT ![s][k] = <<>>]
    /\ IF r.existing_record # 0
         THEN LET existing_record ==
                      CHOOSE e \in attendance_records : e.id = r.existing_record
              IN /\ attendance_records' =
                        (attendance_records \ {existing_record})
                            \cup {UpdatedRecord(existing_record, r)}
                 /\ attendance_attempts' = attendance_attempts \o get_db(<<r.attempt>>, FALSE)
                 /\ lastResp' = result
       ELSE IF ~uq_student_daily_attendance(inserted)
         THEN /\ UNCHANGED attendance_records
              /\ attendance_attempts' = attendance_attempts \o get_db(<<r.attempt>>, TRUE)
              /\ lastResp' = Resp("mark", "IntegrityError", s)
       ELSE /\ attendance_records' = inserted
            /\ attendance_attempts' = attendance_attempts \o get_db(<<r.attempt>>, FALSE)
            /\ lastResp' = result
    /\ UNCHANGED <<photoVars, geoVars, windowVars, holidays, clockVars, settingsVars, bulk_import>>

(* ======================= AttendanceSettings =========================== *)

\* SettingsRepository.ACADEMIC_YEAR_START, SettingsRepository.ACADEMIC_YEAR_END
ACADEMIC_YEAR_START == "academic_year_start"

ACADEMIC_YEAR_END == "academic_year_end"

\* date.strftime("%Y-%m-%d"): the text of a day, a tuple of its digits' value
strftime(d) == <<d>>

\* datetime.strptime(text, "%Y-%m-%d").date()
strptime(text) == text[1]

\* SettingsRepository.get_setting: the rows the query selects
get_setting(settings, key) == {r \in settings : r.key = key}

\* SettingsRepository.set_setting: the table after the commit
set_setting(settings, key, value) ==
    IF get_setting(settings, key) # {}
      THEN {IF r.key = key THEN [r EXCEPT !.value = value] ELSE r : r \in settings}
    ELSE settings \cup {[key |-> key, value |-> value]}

\* The length of an academic year (July 1 to June 30) in days of the
\* model's calendar; day 0 begins one.
AcademicYearDays == 4

\* "Default to July 1 to June 30 if not configured": the academic year that
\* holds today.
default_start(date_today) == (date_today \div AcademicYearDays) * AcademicYearDays

default_end(date_today) == default_start(date_today) + AcademicYearDays - 1

\* SettingsRepository.get_academic_year_dates
get_academic_year_dates(settings, date_today) ==
    LET start_str == get_setting(settings, ACADEMIC_YEAR_START)
        end_str == get_setting(settings, ACADEMIC_YEAR_END)
    IN <<IF start_str # {} THEN strptime((CHOOSE r \in start_str : TRUE).value)
         ELSE default_start(date_today),
         IF end_str # {} THEN strptime((CHOOSE r \in end_str : TRUE).value)
         ELSE default_end(date_today)>>

\* GET /admin/attendance/settings/academic-year,
\* AttendanceService.get_academic_year_settings
get_academic_year_settings ==
    LET dates == get_academic_year_dates(attendance_settings, today) IN
    /\ lastResp' = Resp("get-settings", "result",
                        [start_date |-> dates[1], end_date |-> dates[2]])
    /\ UNCHANGED <<photoVars, geoVars, windowVars, holidays, attendance_attempts,
                   clockVars, markVars, settingsVars, bulk_import>>

\* PUT /admin/attendance/settings/academic-year,
\* AttendanceService.update_academic_year_settings up to the commit of the
\* first set_setting of SettingsRepository.set_academic_year_dates
update_academic_year_settings(a, start_date, end_date) ==
    /\ put_settings[a] = <<>>
    /\ IF start_date >= end_date
         THEN /\ lastResp' = Raise("ValueError")   \* start must be before end
              /\ UNCHANGED settingsVars
       ELSE /\ attendance_settings' =
                  set_setting(attendance_settings, ACADEMIC_YEAR_START, strftime(start_date))
            /\ put_settings' = [put_settings EXCEPT
                  ![a] = [start_date |-> start_date, end_date |-> end_date]]
            /\ UNCHANGED lastResp
    /\ UNCHANGED <<photoVars, geoVars, windowVars, holidays, attendance_attempts,
                   clockVars, markVars, bulk_import>>

\* The rest of SettingsRepository.set_academic_year_dates: the second
\* set_setting with its commit, and the handler's answer
set_academic_year_end(a) ==
    /\ put_settings[a] # <<>>
    /\ attendance_settings' =
          set_setting(attendance_settings, ACADEMIC_YEAR_END,
                      strftime(put_settings[a].end_date))
    /\ put_settings' = [put_settings EXCEPT ![a] = <<>>]
    /\ lastResp' = Resp("put-settings", "result",
                        [start_date |-> put_settings[a].start_date,
                         end_date |-> put_settings[a].end_date])
    /\ UNCHANGED <<photoVars, geoVars, windowVars, holidays, attendance_attempts,
                   clockVars, markVars, bulk_import>>

(* ======================= Attendance statistics ======================== *)

\* HolidayRepository.get_holidays_in_range: the active holidays of the range
get_holidays_in_range(hs, start_date, end_date) ==
    {h \in hs : h.date >= start_date /\ h.date <= end_date /\ h.is_active}

\* HolidayRepository.get_holiday_dates_in_range
get_holiday_dates_in_range(hs, start_date, end_date) ==
    {h.date : h \in get_holidays_in_range(hs, start_date, end_date)}

\* "if current.weekday() != 6 and current not in holiday_dates"
is_working_day(current, holiday_dates) ==
    weekday(current) # 6 /\ current \notin holiday_dates

\* The loop "while current <= end_date" that counts total_working_days
RECURSIVE count_working_days(_, _, _)
count_working_days(current, end_date, holiday_dates) ==
    IF current > end_date THEN 0
    ELSE (IF is_working_day(current, holiday_dates) THEN 1 ELSE 0)
         + count_working_days(current + 1, end_date, holiday_dates)

\* A difference that is not clamped.
absent_count_unclamped(total_working_days, present_count) ==
    total_working_days - present_count

\* absent_count = total_working_days - present_count, 0 when negative
absent_count(total_working_days, present_count) ==
    IF total_working_days - present_count < 0 THEN 0
    ELSE total_working_days - present_count

\* round(present_count / total_working_days * 100, 2) in hundredths of a
\* percent, 0 when there is no working day; round() takes the nearest
\* hundredth, the even one of two equally near.
attendance_percentage(present_count, total_working_days) ==
    IF total_working_days > 0
      THEN LET q == (present_count * 10000) \div total_working_days
               r == (present_count * 10000) % total_working_days
           IN IF 2 * r > total_working_days
                   \/ (2 * r = total_working_days /\ q % 2 = 1)
                THEN q + 1 ELSE q
    ELSE 0

\* AttendanceRecordOut of a row and of a virtual absent entry: id 0 is the
\* null id, <<>> the null marked_at, -1 a null number.
RecordOut(r) ==
    [id |-> r.id, student_id |-> r.student_id, attendance_date |-> r.attendance_date,
     status |-> r.status, marked_at |-> r.marked_at,
     location_latitude |-> r.location_latitude,
     face_match_confidence |-> r.face_match_confidence]

VirtualAbsent(s, current) ==
    [id |-> 0, student_id |-> s, attendance_date |-> current,
     status |-> ABSENT, marked_at |-> <<>>,
     location_latitude |-> -1, face_match_confidence |-> -1]

\* A test that takes every day for a past one.
is_any_day(current, date_today) == TRUE

\* "elif current <= date.today()"
is_not_future(current, date_today) == current <= date_today

\* The loop "while current >= start_date" that builds full_history, from
\* end_date down; records is the result of the student's range query.
RECURSIVE full_history(_, _, _, _, _)
full_history(current, start_date, s, records, holiday_dates) ==
    IF current < start_date THEN <<>>
    ELSE LET on_date == {r \in records : r.attendance_date = current}
             entry ==
               IF is_working_day(current, holiday_dates)
                 THEN IF on_date # {}
                        THEN <<RecordOut(CHOOSE r \in on_date : TRUE)>>
                      ELSE IF is_not_future(current, today)
                        THEN <<VirtualAbsent(s, current)>>
                      ELSE <<>>
               ELSE <<>>
         IN entry \o full_history(current - 1, start_date, s, records, holiday_dates)

\* An omitted date (Optional[date] = None)
NoDate == -1

\* DetailedAttendanceRepository.get_student_attendance_stats, as
\* AttendanceService.get_my_attendance_stats returns it.
get_student_attendance_stats(s, start_arg, end_arg) ==
    LET end_given == IF end_arg = NoDate THEN today ELSE end_arg
        configured == get_academic_year_dates(attendance_settings, today)
        start_date == IF start_arg = NoDate THEN configured[1] ELSE start_arg
        end_date == IF start_arg = NoDate /\ end_given > configured[2]
                      THEN configured[2] ELSE end_given
        records == {r \in attendance_records :
                       /\ r.student_id = s
                       /\ r.attendance_date >= start_date
                       /\ r.attendance_date <= end_date}
        present_count == Cardinality({r \in records : r.status = PRESENT})
        holiday_dates == get_holiday_dates_in_range(holidays, start_date, end_date)
        total_working_days == count_working_days(start_date, end_date, holiday_dates)
    IN [student_id |-> s, start_date |-> start_date, end_date |-> end_date,
        total_working_days |-> total_working_days,
        holidays_count |-> Cardinality(holiday_dates),
        present_days |-> present_count,
        absent_days |-> absent_count(total_working_days, present_count),
        attendance_percentage |-> attendance_percentage(present_count, total_working_days),
        recent_records |-> full_history(end_date, start_date, s, records, holiday_dates)]

\* GET /attendance/stats, routers/attendance.py get_attendance_stats
get_attendance_stats(s, start_date, end_date) ==
    /\ lastResp' = Resp("stats", "result",
                        get_student_attendance_stats(s, start_date, end_date))
    /\ UNCHANGED <<photoVars, geoVars, windowVars, holidays, attendance_attempts,
                   clockVars, markVars, settingsVars, bulk_import>>

(* ======================= Geofence geometry ============================ *)

\* AttendanceService._is_within_geofence and _haversine_distance applied
\* to a location and a geofence centre, in both directions and for every
\* radius: (is_within, distance) as the method returns them.
measure_geofence(location_latitude, geofence_latitude) ==
    LET location == [latitude |-> location_latitude]
        geofence(radius) == [latitude |-> geofence_latitude, radius_meters |-> radius]
    IN /\ lastResp' = Resp("geofence", "result",
             [location |-> location_latitude, centre |-> geofence_latitude,
              distance |-> haversine_distance(location_latitude, geofence_latitude),
              back |-> haversine_distance(geofence_latitude, location_latitude),
              self |-> haversine_distance(location_latitude, location_latitude),
              is_within |-> [radius \in 0..MaxPosition |->
                                is_within_geofence(location, geofence(radius))]])
       /\ UNCHANGED <<photoVars, geoVars, windowVars, holidays, attendance_attempts,
                      clockVars, markVars, settingsVars, bulk_import>>

(* ======================= Detailed attendance view ===================== *)

\* "Check if any attendance window is still open for today": the loop over
\* the active windows of get_all_students_with_attendance_for_date
is_window_open(ws, attendance_date, date_today, current_time) ==
    /\ attendance_date = date_today
    /\ \E window \in {w \in ws : w.is_active} :
          /\ weekday(date_today) \in window.days_of_week
          /\ current_time <= window.end_time

\* DetailedAttendanceRepository.get_all_students_with_attendance_for_date:
\* the status shown for each student
get_all_students_with_attendance_for_date(attendance_date) ==
    [s \in Students |->
        LET record == {r \in attendance_records :
                          r.student_id = s /\ r.attendance_date = attendance_date}
        IN IF record # {} THEN (CHOOSE r \in record : TRUE).status
           ELSE IF is_window_open(attendance_windows, attendance_date, today, now)
             THEN PENDING
           ELSE ABSENT]

\* GET /admin/attendance/detailed,
\* AttendanceService.get_detailed_attendance_for_date
get_detailed_attendance(target_date) ==
    LET students == get_all_students_with_attendance_for_date(target_date)
        count(status) == Cardinality({s \in Students : students[s] = status})
    IN /\ lastResp' = Resp("detailed", "result",
                           [date |-> target_date, students |-> students,
                            present_count |-> count(PRESENT),
                            absent_count |-> count(ABSENT),
                            pending_count |-> count(PENDING),
                            total_students |-> Cardinality(Students)])
       /\ UNCHANGED <<photoVars, geoVars, windowVars, holidays, attendance_attempts,
                      clockVars, markVars, settingsVars, bulk_import>>

(* ======================= Specifications =============================== *)

Init ==
    /\ profile_photos = {}
    /\ nextPhotoId = 1
    /\ campus_geofences = {}
    /\ nextGeofenceId = 1
    /\ attendance_windows = {}
    /\ nextWindowId = 1
    /\ holidays = {}
    /\ attendance_records = {}
    /\ attendance_attempts = <<>>
    /\ today = 0
    /\ now = 0
    /\ pc = [s \in Students |-> [k \in Slots |-> "idle"]]
    /\ req = [s \in Students |-> [k \in Slots |-> <<>>]]
    /\ lastResp = Done
    /\ attendance_settings = {}
    /\ put_settings = [a \in Admins |-> <<>>]
    /\ bulk_import = <<>>

(* ---- profile photo lifecycle ---- *)
PhotoNext ==
    \/ \E s \in Students : \E faces \in 0..2 : \E encoded \in BOOLEAN :
          nextPhotoId <= MaxPhotos /\ upload_profile_photo(s, faces, encoded)
    \/ \E photo_id \in 1..MaxPhotos : \E approved \in BOOLEAN :
       \E reason \in {None, "blurry"} :
          review_profile_photo(photo_id, approved, reason)

PhotoSpec == Init /\ [][PhotoNext]_vars

(* ---- geofence administration ---- *)
GeofenceCreates ==
    [latitude : {0}, radius_meters : {10}, accuracy_threshold : {5}, is_primary : BOOLEAN]

GeofenceUpdates ==
    {[fields |-> {"is_primary"}, latitude |-> 0, radius_meters |-> 10,
      accuracy_threshold |-> 5, is_active |-> TRUE, is_primary |-> b] : b \in BOOLEAN}
    \cup
    {[fields |-> {"is_active"}, latitude |-> 0, radius_meters |-> 10,
      accuracy_threshold |-> 5, is_active |-> b, is_primary |-> FALSE] : b \in BOOLEAN}
    \cup
    {[fields |-> {"radius_meters", "accuracy_threshold"}, latitude |-> 0,
      radius_meters |-> 20, accuracy_threshold |-> 6, is_active |-> TRUE,
      is_primary |-> FALSE]}

GeoNext ==
    \/ \E data \in GeofenceCreates :
          nextGeofenceId <= MaxGeofences /\ create_geofence(data)
    \/ \E geofence_id \in 1..MaxGeofences : \E data \in GeofenceUpdates :
          update_geofence(geofence_id, data)
    \/ \E geofence_id \in 1..MaxGeofences : delete_geofence(geofence_id)

GeoSpec == Init /\ [][GeoNext]_vars
(* ---- the marking pipeline with its administration ---- *)
WindowCreates ==
    [start_time : {0}, end_time : {0}, days_of_week : {{0, 1, 2, 3, 4, 5}},
     student_category : {None, "DAY_SCHOLAR"}, is_active : {TRUE}]

\* What a request carries and what the face library finds in its image.
\* With the geofence of GeofenceCreates (centre 0, radius 10, threshold 5):
\* latitude 11 is outside, accuracy 6 is too coarse.
MarkInput(l, a, f, m) ==
    [latitude |-> l, accuracy |-> a, faces |-> f, is_match |-> m,
     score |-> IF m THEN 9 ELSE 3]

GoodInput == MarkInput(0, 5, 1, TRUE)

MismatchInput == MarkInput(0, 5, 1, FALSE)

MarkInputs ==
    {GoodInput, MismatchInput,
     MarkInput(0, 6, 1, TRUE), MarkInput(11, 5, 1, TRUE),
     MarkInput(0, 5, 0, TRUE), MarkInput(0, 5, 2, TRUE),
     MarkInput(11, 6, 0, FALSE), MarkInput(11, 5, 2, FALSE), MarkInput(0, 5, 0, FALSE)}

InFlight == Cardinality({sk \in Students \X Slots : pc[sk[1]][sk[2]] # "idle"})

\* Requests of any students interleave with each other and with the
\* administration of photos, geofence and window.
Next ==
    \/ \E s \in Students : nextPhotoId <= NumStudents /\ upload_profile_photo(s, 1, TRUE)
    \/ \E photo_id \in 1..NumStudents : \E approved \in BOOLEAN :
          review_profile_photo(photo_id, approved, None)
    \/ \E data \in GeofenceCreates :
          nextGeofenceId < MaxGeofences /\ data.is_primary /\ create_geofence(data)
    \/ \E data \in GeofenceUpdates :
          data.fields = {"is_active"} /\ update_geofence(1, data)
    \/ delete_geofence(1)
    \/ \E data \in WindowCreates :
          /\ nextWindowId <= MaxWindows
          /\ data.student_category = None
          /\ create_attendance_window(data)
    \/ Midnight
    \/ \E s \in Students : \E k \in Slots :
          Len(attendance_attempts) + InFlight < MaxLog /\ post_mark(s, k)
    \/ \E s \in Students : \E k \in Slots : \E input \in MarkInputs : mark_gates(s, k, input)
    \/ \E s \in Students : \E k \in Slots : mark_upsert(s, k)

Spec == Init /\ [][Next]_vars

(* ---- the gates under geofence administration ---- *)
GateNext ==
    \/ \E s \in Students : nextPhotoId <= NumStudents /\ upload_profile_photo(s, 1, TRUE)
    \/ \E photo_id \in 1..NumStudents : review_profile_photo(photo_id, TRUE, None)
    \/ \E data \in GeofenceCreates :
          nextGeofenceId <= MaxGeofences /\ data.is_primary /\ create_geofence(data)
    \/ \E geofence_id \in 1..MaxGeofences : \E data \in GeofenceUpdates :
          data.fields = {"is_active"} /\ update_geofence(geofence_id, data)
    \/ \E geofence_id \in 1..MaxGeofences : delete_geofence(geofence_id)
    \/ \E data \in WindowCreates :
          /\ nextWindowId <= MaxWindows
          /\ data.student_category = None
          /\ create_attendance_window(data)
    \/ \E s \in Students : \E k \in Slots :
          Len(attendance_attempts) + InFlight < MaxGateLog /\ post_mark(s, k)
    \/ \E s \in Students : \E k \in Slots : \E input \in MarkInputs : mark_gates(s, k, input)
    \/ \E s \in Students : \E k \in Slots : mark_upsert(s, k)

GateSpec == Init /\ [][GateNext]_vars

(* ---- the pre-check: calendar, holidays and windows ---- *)
PolicyNext ==
    \/ \E s \in Students : nextPhotoId <= NumStudents /\ upload_profile_photo(s, 1, TRUE)
    \/ \E photo_id \in 1..NumStudents : review_profile_photo(photo_id, TRUE, None)
    \/ \E data \in GeofenceCreates :
          nextGeofenceId < MaxGeofences /\ data.is_primary /\ create_geofence(data)
    \/ \E data \in WindowCreates :
          nextWindowId <= MaxWindows /\ create_attendance_window(data)
    \/ \E window_id \in 1..MaxWindows : delete_attendance_window(window_id)
    \/ \E date \in Days : create_holiday(date)
    \/ \E date \in Days : delete_holiday(date)
    \/ Tick
    \/ Midnight
    \/ \E s \in Students : \E k \in Slots :
          Len(attendance_attempts) + InFlight < MaxPolicyLog /\ post_mark(s, k)
    \/ \E s \in Students : \E k \in Slots : mark_gates(s, k, GoodInput)
    \/ \E s \in Students : \E k \in Slots : mark_upsert(s, k)

PolicySpec == Init /\ [][PolicyNext]_vars

(* ---- the daily attempt limit: a student's requests one after another ---- *)
NoneInFlight(s) == \A k \in Slots : pc[s][k] = "idle"

ThrottleNext ==
    \/ \E s \in Students : nextPhotoId <= NumStudents /\ upload_profile_photo(s, 1, TRUE)
    \/ \E photo_id \in 1..NumStudents : review_profile_photo(photo_id, TRUE, None)
    \/ \E data \in GeofenceCreates :
          nextGeofenceId < MaxGeofences /\ data.is_primary /\ create_geofence(data)
    \/ \E data \in WindowCreates :
          /\ nextWindowId <= MaxWindows
          /\ data.student_category = None
          /\ create_attendance_window(data)
    \/ Midnight
    \/ \E s \in Students : \E k \in Slots :
          /\ Len(attendance_attempts) < MaxThrottleLog
          /\ NoneInFlight(s)
          /\ post_mark(s, k)
    \/ \E s \in Students : \E k \in Slots : \E input \in {GoodInput, MismatchInput} :
          mark_gates(s, k, input)
    \/ \E s \in Students : \E k \in Slots : mark_upsert(s, k)

ThrottleSpec == Init /\ [][ThrottleNext]_vars

(* ---- repeated marks of one day: requests that overlap the first mark ---- *)
\* Two requests that pass every gate with different location snapshots.
RemarkInputs == {GoodInput, MarkInput(1, 4, 1, TRUE)}

RemarkNext ==
    \/ \E s \in Students : nextPhotoId <= NumStudents /\ upload_profile_photo(s, 1, TRUE)
    \/ \E photo_id \in 1..NumStudents : review_profile_photo(photo_id, TRUE, None)
    \/ \E data \in GeofenceCreates :
          nextGeofenceId < MaxGeofences /\ data.is_primary /\ create_geofence(data)
    \/ \E data \in WindowCreates :
          /\ nextWindowId <= MaxWindows
          /\ data.student_category = None
          /\ create_attendance_window(data)
    \/ \E s \in Students : \E k \in Slots :
          Len(attendance_attempts) + InFlight < MaxRemarkLog /\ post_mark(s, k)
    \/ \E s \in Students : \E k \in Slots : \E input \in RemarkInputs :
          mark_gates(s, k, input)
    \/ \E s \in Students : \E k \in Slots : mark_upsert(s, k)

RemarkSpec == Init /\ [][RemarkNext]_vars

(* ---- the window check: pre-check over window tables, days and times ---- *)
\* Times of day in minutes after midnight: 09:00 is 540, 09:30 is 570.
WindowTimes == {539, 540, 555, 570, 571}

\* Day 1 is a Sunday, day 3 a Tuesday, day 4 a Wednesday.
WindowDays == {1, 3, 4}

WindowRows(id) ==
    [id : {id}, start_time : {540, 556}, end_time : {554, 570},
     days_of_week : {{0, 1, 2, 3, 4, 5}, {2}, {6}},
     student_category : {None, "HOSTELLER", "DAY_SCHOLAR"}, is_active : BOOLEAN]

WindowInit ==
    /\ profile_photos = {}
    /\ nextPhotoId = 1
    /\ campus_geofences = {}
    /\ nextGeofenceId = 1
    /\ attendance_windows \in
          {{}} \cup {{w} : w \in WindowRows(1)}
               \cup {{w, v} : w \in WindowRows(1), v \in WindowRows(2)}
    /\ nextWindowId = Cardinality(attendance_windows) + 1
    /\ holidays = {}
    /\ attendance_records = {}
    /\ attendance_attempts = <<>>
    /\ today \in WindowDays
    /\ now \in WindowTimes
    /\ pc = [s \in Students |-> [k \in Slots |-> "idle"]]
    /\ req = [s \in Students |-> [k \in Slots |-> <<>>]]
    /\ lastResp = Done
    /\ attendance_settings = {}
    /\ put_settings = [a \in Admins |-> <<>>]
    /\ bulk_import = <<>>

WindowNext == \E s \in Students : pre_check_attendance(s)

WindowSpec == WindowInit /\ [][WindowNext]_vars

(* ---- statistics over tables of records and holidays ---- *)
\* The days of the statistics: day 0 is a Saturday, day 1 the Sunday.
StatsDays == 0..MaxStatsDay

\* The days that may hold a seeded ABSENT row (seed_attendance.py writes
\* them for days before today).
StatsSeededDays == {2}

\* The rows of attendance_records for the PRESENT marks and the seeded
\* ABSENT rows given as (student, date) pairs; ids follow the dates.
StatsRows(present, absent) ==
    LET all == present \cup absent
        idOf(p) == 1 + Cardinality({q \in all :
                          q[2] < p[2] \/ (q[2] = p[2] /\ q[1] < p[1])})
    IN {[id |-> idOf(p), student_id |-> p[1], attendance_date |-> p[2],
         status |-> PRESENT, marked_at |-> <<p[2], 0>>, location_latitude |-> 0,
         location_accuracy |-> 5, face_match_confidence |-> 9] : p \in present}
       \cup
       {[id |-> idOf(p), student_id |-> p[1], attendance_date |-> p[2],
         status |-> ABSENT, marked_at |-> <<>>, location_latitude |-> -1,
         location_accuracy |-> -1, face_match_confidence |-> -1] : p \in absent}

\* Holiday tables: one row per date at most.
StatsHolidays ==
    {hs \in SUBSET [date : StatsDays, is_active : BOOLEAN] :
        /\ Cardinality(hs) <= MaxStatsHolidays
        /\ \A h \in hs : \A g \in hs : h.date = g.date => h = g}

\* The date ranges asked for: the week, its first two days, working days
\* only, one day, the Sunday alone, and an empty range.
StatsRanges == {<<0, 6>>, <<0, 1>>, <<2, 5>>, <<6, 6>>, <<1, 1>>, <<5, 2>>}

\* Student 1 has any marks up to today, the others at most one of day 0.
StatsInit ==
    /\ profile_photos = {}
    /\ nextPhotoId = 1
    /\ campus_geofences = {}
    /\ nextGeofenceId = 1
    /\ attendance_windows = {}
    /\ nextWindowId = 1
    /\ holidays \in StatsHolidays
    /\ today \in StatsDays
    /\ now = 0
    /\ \E present1 \in SUBSET (0..today) :
       \E absent1 \in SUBSET ((StatsSeededDays \cap (0..(today - 1))) \ present1) :
       \E others \in SUBSET ((Students \ {1}) \X {0}) :
          attendance_records =
              StatsRows(({1} \X present1) \cup others, {1} \X absent1)
    /\ attendance_attempts = <<>>
    /\ pc = [s \in Students |-> [k \in Slots |-> "idle"]]
    /\ req = [s \in Students |-> [k \in Slots |-> <<>>]]
    /\ lastResp = Done
    /\ attendance_settings = {}
    /\ put_settings = [a \in Admins |-> <<>>]
    /\ bulk_import = <<>>

StatsNext ==
    \E s \in Students : \E range \in StatsRanges :
        get_attendance_stats(s, range[1], range[2])

StatsSpec == StatsInit /\ [][StatsNext]_vars

(* ---- statistics with omitted dates, over settings tables ---- *)
\* The settings table that holds the academic year start_date..end_date
SettingsRows(start_date, end_date) ==
    {[key |-> ACADEMIC_YEAR_START, value |-> strftime(start_date)],
     [key |-> ACADEMIC_YEAR_END, value |-> strftime(end_date)]}

\* Nothing configured, a year that ends inside the week, one that starts
\* inside it, and a table with the start key alone.
DefaultsSettings ==
    {{}, SettingsRows(0, 3), SettingsRows(2, 5),
     {[key |-> ACADEMIC_YEAR_START, value |-> strftime(1)]}}

DefaultsStarts == {NoDate, 1}

DefaultsEnds == {NoDate, 2, 6}

DefaultsInit ==
    /\ profile_photos = {}
    /\ nextPhotoId = 1
    /\ campus_geofences = {}
    /\ nextGeofenceId = 1
    /\ attendance_windows = {}
    /\ nextWindowId = 1
    /\ holidays = {}
    /\ today \in StatsDays
    /\ now = 0
    /\ \E present1 \in SUBSET ({0, 2} \cap (0..today)) :
          attendance_records = StatsRows({1} \X present1, {})
    /\ attendance_attempts = <<>>
    /\ pc = [s \in Students |-> [k \in Slots |-> "idle"]]
    /\ req = [s \in Students |-> [k \in Slots |-> <<>>]]
    /\ lastResp = Done
    /\ attendance_settings \in DefaultsSettings
    /\ put_settings = [a \in Admins |-> <<>>]
    /\ bulk_import = <<>>

DefaultsNext ==
    \E s \in Students : \E start_date \in DefaultsStarts : \E end_date \in DefaultsEnds :
        get_attendance_stats(s, start_date, end_date)

DefaultsSpec == DefaultsInit /\ [][DefaultsNext]_vars

(* ---- academic-year settings: updates and readers ---- *)
SettingsDays == 0..MaxSettingsDay

SettingsNext ==
    \/ \E a \in Admins : \E start_date \in SettingsDays : \E end_date \in SettingsDays :
          update_academic_year_settings(a, start_date, end_date)
    \/ \E a \in Admins : set_academic_year_end(a)
    \/ get_academic_year_settings

SettingsSpec == Init /\ [][SettingsNext]_vars

(* ---- the holiday calendar: create, delete and bulk import ---- *)
\* January 1 and January 2 of the epoch year
HolidayDates == {0, 1}

BlankLine == Line(TRUE, FALSE, 0, "", 0)

\* "Date<TAB>Day<TAB>Holiday"
HeaderLine == Line(FALSE, TRUE, 3, "date", 0)

\* "Jan 1" alone, "1 Jan<TAB>Sat<TAB>x", "Foo 1<TAB>Sat<TAB>x",
\* "Feb 30<TAB>Wed<TAB>x", "Jan 1<TAB>Sat<TAB>x", "January 1, x",
\* "Jan 2<TAB>Sun<TAB>x"
BulkLines ==
    {BlankLine, HeaderLine,
     Line(FALSE, FALSE, 1, "jan", 1), Line(FALSE, FALSE, 3, "", 0),
     Line(FALSE, FALSE, 3, "foo", 1), Line(FALSE, FALSE, 3, "feb", 30),
     Line(FALSE, FALSE, 3, "jan", 1), Line(FALSE, FALSE, 2, "january", 1),
     Line(FALSE, FALSE, 3, "jan", 2)}

BulkTexts ==
    UNION {[1..n -> BulkLines] : n \in 0..MaxBulkLines}

HolidayNext ==
    \/ \E date \in HolidayDates : create_holiday(date)
    \/ \E date \in HolidayDates : delete_holiday(date)
    \/ \E text \in BulkTexts : bulk_create_holidays(text, EpochYear)
    \/ bulk_line
    \/ bulk_return

HolidaySpec == Init /\ [][HolidayNext]_vars

(* ---- the detailed view over window tables, records, days and times ---- *)
\* The dates asked for: a Saturday, the Tuesday, the Wednesday, a Thursday.
DetailDates == {0, 3, 4, 5}

\* The records of the table: none, student 1 PRESENT on the Tuesday, or
\* student 2 PRESENT on the Wednesday with student 1 ABSENT on the Tuesday.
DetailRecords ==
    {StatsRows({}, {}), StatsRows({<<1, 3>>}, {}), StatsRows({<<2, 4>>}, {<<1, 3>>})}

DetailInit ==
    /\ profile_photos = {}
    /\ nextPhotoId = 1
    /\ campus_geofences = {}
    /\ nextGeofenceId = 1
    /\ attendance_windows \in {{}} \cup {{w} : w \in WindowRows(1)}
    /\ nextWindowId = Cardinality(attendance_windows) + 1
    /\ holidays = {}
    /\ today \in WindowDays
    /\ now \in WindowTimes
    /\ attendance_records \in
          {rs \in DetailRecords : \A r \in rs : r.attendance_date <= today}
    /\ attendance_attempts = <<>>
    /\ pc = [s \in Students |-> [k \in Slots |-> "idle"]]
    /\ req = [s \in Students |-> [k \in Slots |-> <<>>]]
    /\ lastResp = Done
    /\ attendance_settings = {}
    /\ put_settings = [a \in Admins |-> <<>>]
    /\ bulk_import = <<>>

DetailNext == \E target_date \in DetailDates : get_detailed_attendance(target_date)

DetailSpec == DetailInit /\ [][DetailNext]_vars

(* ---- distances and containment over positions and radii ---- *)
Positions == 0..MaxPosition

GeometryNext ==
    \E location_latitude \in Positions : \E geofence_latitude \in Positions :
        measure_geofence(location_latitude, geofence_latitude)

GeometrySpec == Init /\ [][GeometryNext]_vars

(* ---- the daily attempt limit under two overlapping requests ---- *)
\* The requests of student s that are being served
InFlightOf(s) == Cardinality({k \in Slots : pc[s][k] # "idle"})

\* A student has at most two requests in flight at a time.
OverlapNext ==
    \/ \E s \in Students : nextPhotoId <= NumStudents /\ upload_profile_photo(s, 1, TRUE)
    \/ \E photo_id \in 1..NumStudents : review_profile_photo(photo_id, TRUE, None)
    \/ \E data \in GeofenceCreates :
          nextGeofenceId < MaxGeofences /\ data.is_primary /\ create_geofence(data)
    \/ \E data \in WindowCreates :
          /\ nextWindowId <= MaxWindows
          /\ data.student_category = None
          /\ create_attendance_window(data)
    \/ \E s \in Students : \E k \in Slots :
          /\ Len(attendance_attempts) + InFlight < MaxOverlapLog
          /\ InFlightOf(s) < 2
          /\ post_mark(s, k)
    \/ \E s \in Students : \E k \in Slots : \E input \in {GoodInput, MismatchInput} :
          mark_gates(s, k, input)
    \/ \E s \in Students : \E k \in Slots : mark_upsert(s, k)

OverlapSpec == Init /\ [][OverlapNext]_vars

(* ---- one mark request under administration of what the pre-check reads ---- *)
RaceNext ==
    \/ \E s \in Students : nextPhotoId <= NumStudents /\ upload_profile_photo(s, 1, TRUE)
    \/ \E photo_id \in 1..NumStudents : review_profile_photo(photo_id, TRUE, None)
    \/ \E data \in GeofenceCreates :
          nextGeofenceId < MaxGeofences /\ data.is_primary /\ create_geofence(data)
    \/ \E data \in GeofenceUpdates :
          data.fields = {"is_active"} /\ update_geofence(1, data)
    \/ delete_geofence(1)
    \/ \E data \in WindowCreates :
          /\ nextWindowId <= MaxWindows
          /\ data.student_category = None
          /\ create_attendance_window(data)
    \/ \E window_id \in 1..MaxWindows : delete_attendance_window(window_id)
    \/ \E date \in Days : create_holiday(date)
    \/ \E s \in Students : \E k \in Slots :
          Len(attendance_attempts) + InFlight < MaxRaceLog /\ post_mark(s, k)
    \/ \E s \in Students : \E k \in Slots : mark_gates(s, k, GoodInput)
    \/ \E s \in Students : \E k \in Slots : mark_upsert(s, k)

RaceSpec == Init /\ [][RaceNext]_vars

(* ============================ Properties ============================== *)

(* ------------------------------ C2 ------------------------------------ *)
ApprovedCount(s) == Cardinality(get_approved_photo_for_student(profile_photos, s))

PhotoById(ps, photo_id) == CHOOSE p \in ps : p.id = photo_id

\* A review that approves the PENDING photo photo_id of a student who has
\* another APPROVED photo.
ApprovesOverApproved(photo_id, reason) ==
    /\ \E p \in profile_photos : p.id = photo_id /\ p.status = PENDING
    /\ \E e \in profile_photos :
          /\ e.student_id = PhotoById(profile_photos, photo_id).student_id
          /\ e.status = APPROVED
    /\ review_profile_photo(photo_id, TRUE, reason)

\* C2 (as claimed): each student has at most one APPROVED photo, and
\* approving a PENDING photo of a student who has an APPROVED one ends with
\* the new photo APPROVED and the previous one REJECTED with the reason
\* "Replaced by new approved photo", whatever other photos the student has.
C2_ApproveReplaces ==
    [][ /\ \A s \in Students : ApprovedCount(s)' <= 1
        /\ \A photo_id \in 1..MaxPhotos : \A reason \in {None, "blurry"} :
             ApprovesOverApproved(photo_id, reason) =>
               LET old == CHOOSE e \in profile_photos :
                             /\ e.student_id = PhotoById(profile_photos, photo_id).student_id
                             /\ e.status = APPROVED
               IN /\ PhotoById(profile_photos', photo_id).status = APPROVED
                  /\ PhotoById(profile_photos', old.id).status = REJECTED
                  /\ PhotoById(profile_photos', old.id).rejection_reason = ReplacedReason
      ]_vars

(* ------------------------------ C3 ------------------------------------ *)
\* C3 (as claimed): after any sequence of geofence create, update and
\* delete operations at most one geofence has is_primary and is_active
\* (setting is_primary on a geofence unsets it on the previous primary one).
C3_OnePrimaryActive ==
    Cardinality(get_primary_active_geofence(campus_geofences)) <= 1


(* ------------------------------ C1 ------------------------------------ *)
RecordsOf(s, d) == {r \in attendance_records : r.student_id = s /\ r.attendance_date = d}

\* C1: for every student and every date at most one AttendanceRecord
\* exists, whatever marks, repeated or overlapping, the students made.
C1_OneRecordPerDay ==
    \A s \in Students : \A d \in Days : Cardinality(RecordsOf(s, d)) <= 1

\* Two overlapping marks of one student passed all gates; the second INSERT
\* was refused and one record is there.
C1_Witness ==
    \E s \in Students :
        /\ lastResp = Resp("mark", "IntegrityError", s)
        /\ \E d \in Days : Cardinality(RecordsOf(s, d)) = 1

(* ------------------------------ C4 ------------------------------------ *)
GateOrder == <<"G1", "G2", "G3", "G4", "G5", "G6">>

\* The gates, each by its own condition, that a request of student s with
\* this input fails in the current state.
FailingGates(s, input) ==
    LET primary == {g \in campus_geofences : g.is_primary /\ g.is_active} IN
    (IF primary = {} THEN {1} ELSE {})
    \cup (IF \E g \in primary : input.accuracy > g.accuracy_threshold THEN {2} ELSE {})
    \cup (IF \E g \in primary :
               (input.latitude - g.latitude > g.radius_meters
                  \/ g.latitude - input.latitude > g.radius_meters) THEN {3} ELSE {})
    \cup (IF input.faces # 1 THEN {4} ELSE {})
    \cup (IF ~(\E p \in profile_photos : p.student_id = s /\ p.status = APPROVED)
            THEN {5} ELSE {})
    \cup (IF ~input.is_match THEN {6} ELSE {})

FirstFailingGate(s, input) ==
    CHOOSE g \in FailingGates(s, input) : \A h \in FailingGates(s, input) : g <= h

GateReason(g, input) ==
    CASE g = 1 -> "OUTSIDE_CAMPUS"
      [] g = 2 -> "LOW_GPS_ACCURACY"
      [] g = 3 -> "OUTSIDE_CAMPUS"
      [] g = 4 -> (IF input.faces = 0 THEN "NO_FACE_DETECTED" ELSE "MULTIPLE_FACES")
      [] g = 5 -> "PROFILE_NOT_APPROVED"
      [] g = 6 -> "FACE_MISMATCH"

\* C4 (as claimed): a mark call evaluates the gates in the order G1 geofence, G2
\* accuracy, G3 containment, G4 one face, G5 approved photo, G6 face match
\* and stops at the first that fails: the failure_reason it returns and the
\* one it logs are that gate's, and no later gate is evaluated.
C4_FirstFailingGate ==
    [][ \A s \in Students : \A k \in Slots : \A input \in MarkInputs :
          mark_gates(s, k, input) =>
            IF FailingGates(s, input) = {}
              THEN /\ pc'[s][k] = "gated"
                   /\ req'[s][k].evaluated = GateOrder
            ELSE LET g == FirstFailingGate(s, input) IN
                 /\ pc'[s][k] = "idle"
                 /\ lastResp'.kind = "result"
                 /\ lastResp'.detail.student_id = s
                 /\ lastResp'.detail.success = FALSE
                 /\ lastResp'.detail.failure_reason = GateReason(g, input)
                 /\ lastResp'.detail.evaluated = SubSeq(GateOrder, 1, g)
                 /\ Len(attendance_attempts') = Len(attendance_attempts) + 1
                 /\ attendance_attempts'[Len(attendance_attempts')].failure_reason
                       = GateReason(g, input)
      ]_vars

(* ------------------------------ C5 ------------------------------------ *)
AttemptsOf(s) ==
    Cardinality({i \in DOMAIN attendance_attempts : attendance_attempts[i].student_id = s})

\* The step in which the mark call of request k of student s ends.
MarkCallEnds(s, k) ==
    \/ \E input \in MarkInputs : mark_gates(s, k, input) /\ pc'[s][k] = "idle"
    \/ mark_upsert(s, k)

\* C5 (as claimed): every mark call, whichever gate it ends at and whether
\* it succeeds or fails, adds exactly one attempt of its student and no
\* attempt of any other student.
C5_OneAttemptPerCall ==
    [][ \A s \in Students : \A k \in Slots :
          MarkCallEnds(s, k) =>
              /\ AttemptsOf(s)' = AttemptsOf(s) + 1
              /\ \A o \in Students \ {s} : AttemptsOf(o)' = AttemptsOf(o)
      ]_vars

(* ------------------------------ C7 ------------------------------------ *)
\* C7 (as claimed): a mark call answers success = true exactly when all six
\* gates pass, and then the student's record for today is PRESENT with the
\* request's location, the face-match score and marked_at = now; a call that
\* ends at a failing gate answers success = false and leaves the records as
\* they are.
C7_SuccessIffAllGates ==
    [][ \A s \in Students : \A k \in Slots :
          /\ mark_upsert(s, k) =>
               /\ req[s][k].evaluated = GateOrder
               /\ lastResp'.kind = "result"
               /\ lastResp'.detail.student_id = s
               /\ lastResp'.detail.success = TRUE
               /\ \E rec \in attendance_records' :
                     /\ rec.student_id = s
                     /\ rec.attendance_date = req[s][k].today
                     /\ rec.status = PRESENT
                     /\ rec.marked_at = <<req[s][k].today, req[s][k].now>>
                     /\ rec.location_latitude = req[s][k].location_latitude
                     /\ rec.location_accuracy = req[s][k].location_accuracy
                     /\ rec.face_match_confidence = req[s][k].score
          /\ \A input \in MarkInputs :
               (mark_gates(s, k, input) /\ FailingGates(s, input) # {}) =>
                   /\ lastResp'.kind = "result"
                   /\ lastResp'.detail.success = FALSE
                   /\ attendance_records' = attendance_records
      ]_vars

(* ------------------------------ C8 ------------------------------------ *)
\* C8: once the record of a (student, date) is PRESENT no step changes its
\* status: it is PRESENT after every step.
C8_PresentStays ==
    [][ \A r \in attendance_records :
          r.status = PRESENT =>
              \E q \in attendance_records' :
                  /\ q.id = r.id
                  /\ q.student_id = r.student_id
                  /\ q.attendance_date = r.attendance_date
                  /\ q.status = PRESENT
      ]_vars

\* A second successful mark of the day rewrote a record that was PRESENT.
C8_Witness ==
    \E r \in attendance_records :
        /\ r.status = PRESENT
        /\ \E i \in DOMAIN attendance_attempts : \E j \in DOMAIN attendance_attempts :
              /\ i < j
              /\ attendance_attempts[i].student_id = r.student_id
              /\ attendance_attempts[j].student_id = r.student_id
              /\ attendance_attempts[i].attempted_at = r.attendance_date
              /\ attendance_attempts[j].attempted_at = r.attendance_date
              /\ attendance_attempts[i].success
              /\ attendance_attempts[j].success

(* ------------------------------ C6 ------------------------------------ *)
\* A POST /attendance/mark that is turned away before the gates: the
\* request ends in this step and neither an attempt nor a record is written.
Blocked(s, k) ==
    /\ pc'[s][k] = "idle"
    /\ attendance_attempts' = attendance_attempts
    /\ attendance_records' = attendance_records

AttemptsToday(s) ==
    Cardinality({i \in DOMAIN attendance_attempts :
                    /\ attendance_attempts[i].student_id = s
                    /\ attendance_attempts[i].attempted_at = today})

\* C6: when the requests of a student do not overlap, the attempts counted
\* for the student today never exceed MAX_DAILY_ATTEMPTS, and a POST
\* /attendance/mark made once the count has reached it is blocked before
\* any gate and writes no attempt and no record.
C6_DailyLimit ==
    [][ \A s \in Students :
          /\ AttemptsToday(s)' <= MAX_DAILY_ATTEMPTS
          /\ \A k \in Slots :
                (AttemptsToday(s) >= MAX_DAILY_ATTEMPTS /\ post_mark(s, k)) => Blocked(s, k)
      ]_vars

\* A student with five attempts today posted again and was told that the
\* maximum is reached.
C6_Witness ==
    \E s \in Students :
        /\ AttemptsToday(s) = MAX_DAILY_ATTEMPTS
        /\ lastResp.op = "mark"
        /\ lastResp.kind = "HTTP 400"
        /\ lastResp.detail.student_id = s
        /\ "Maximum attempts reached" \in lastResp.detail.blockers

(* ------------------------------ C9 ------------------------------------ *)
ActiveHolidayToday == \E h \in holidays : h.date = today /\ h.is_active

\* C9: on a Sunday, or on a day with an active holiday, POST
\* /attendance/mark is blocked for every student: no attempt is logged and
\* no record is created or changed; a deleted (inactive) holiday is no
\* reason to block.
C9_SundayHolidayBlock ==
    [][ \A s \in Students : \A k \in Slots :
          post_mark(s, k) =>
            /\ (weekday(today) = 6 \/ ActiveHolidayToday) => Blocked(s, k)
            /\ (/\ ~ActiveHolidayToday
                /\ pc'[s][k] = "idle"
                /\ lastResp'.kind = "HTTP 400") =>
                   "Holiday" \notin lastResp'.detail.blockers
      ]_vars

\* A POST on a day with an active holiday and nothing else in the way was
\* answered with the holiday as the only blocker.
C9_Witness ==
    /\ ActiveHolidayToday
    /\ lastResp.op = "mark"
    /\ lastResp.kind = "HTTP 400"
    /\ lastResp.detail.blockers = {"Holiday"}
    /\ attendance_attempts = <<>>
    /\ attendance_records = {}

(* ------------------------------ C10 ----------------------------------- *)
\* An active window that applies to student s is open now.
ApplicableWindowOpen(s) ==
    \E w \in attendance_windows :
        /\ w.is_active
        /\ weekday(today) \in w.days_of_week
        /\ (w.student_category = None \/ w.student_category = student_category(s))
        /\ w.start_time <= now
        /\ now <= w.end_time

\* C10 (as claimed): a POST /attendance/mark made when no active window
\* applicable to the student is open is blocked: it logs no attempt and
\* marks no record PRESENT.
C10_OnlyInWindow ==
    [][ \A s \in Students : \A k \in Slots :
          (post_mark(s, k) /\ ~ApplicableWindowOpen(s)) => Blocked(s, k)
      ]_vars

(* ------------------------------ C11 ----------------------------------- *)
PresentToday(s) ==
    \E r \in attendance_records :
        r.student_id = s /\ r.attendance_date = today /\ r.status = PRESENT

\* C11: a POST /attendance/mark of a student whose record for today is
\* already PRESENT is blocked: the gates do not run, no attempt is logged,
\* the record is left as it is and no second record is created; the HTTP 400
\* it is answered with lists "Attendance already marked today".
C11_PresentBlocked ==
    [][ \A s \in Students : \A k \in Slots :
          (post_mark(s, k) /\ PresentToday(s)) =>
              /\ Blocked(s, k)
              /\ req' = req
              /\ lastResp'.kind = "HTTP 400" =>
                    "Attendance already marked today" \in lastResp'.detail.blockers
      ]_vars

\* A student with a PRESENT record for today posted again and was told that
\* attendance is already marked; the record is the only one.
C11_Witness ==
    \E s \in Students :
        /\ PresentToday(s)
        /\ Cardinality(RecordsOf(s, today)) = 1
        /\ lastResp.op = "mark"
        /\ lastResp.kind = "HTTP 400"
        /\ lastResp.detail.student_id = s
        /\ lastResp.detail.blockers = {"Attendance already marked today"}

(* ------------------------------ C12 ----------------------------------- *)
\* The successful attempts of student s on day d.
SuccessesOf(s, d) ==
    {i \in DOMAIN attendance_attempts :
        /\ attendance_attempts[i].student_id = s
        /\ attendance_attempts[i].attempted_at = d
        /\ attendance_attempts[i].success}

LostRace(s, k) ==
    /\ pc[s][k] = "gated"
    /\ req[s][k].existing_record = 0
    /\ RecordsOf(s, req[s][k].today) # {}

\* C13 (as claimed): when two mark requests of one student for the same day
\* both pass all gates, the one that loses the race on the unique (student,
\* date) constraint is answered with a result whose outcome is "already
\* marked"; no mark call ends in an unhandled error, and one PRESENT record
\* is there.
C13_RaceCaught ==
    [][ \A s \in Students : \A k \in Slots :
          mark_upsert(s, k) =>
              /\ lastResp'.kind = "result"
              /\ LostRace(s, k) =>
                    /\ lastResp'.detail.success = FALSE
                    /\ lastResp'.detail.failure_reason = "ALREADY_MARKED"
              /\ \E rec \in attendance_records' :
                    /\ rec.student_id = s
                    /\ rec.attendance_date = req[s][k].today
                    /\ rec.status = PRESENT
                    /\ \A o \in attendance_records' :
                          (o.student_id = s /\ o.attendance_date = req[s][k].today)
                              => o = rec
      ]_vars

(* ------------------------------ C14 ----------------------------------- *)
\* The pre-check blockers that stand for a verification outcome:
\* PROFILE_NOT_APPROVED, ALREADY_MARKED and OUTSIDE_CAMPUS (no geofence).
VerificationBlockers ==
    {"Profile photo not approved", "Attendance already marked today",
     "Campus geofence not configured"}

VerificationOutcomes ==
    {"OUTSIDE_CAMPUS", "LOW_GPS_ACCURACY", "NO_FACE_DETECTED", "MULTIPLE_FACES",
     "PROFILE_NOT_APPROVED", "FACE_MISMATCH", "ALREADY_MARKED"}

\* C14 (as claimed): every verification outcome reaches the caller of POST
\* /attendance/mark as a completed result with success = false and that
\* failure_reason, with an attempt logged for it, never as an exception or
\* an HTTP error: a POST is answered HTTP 400 only when a policy block
\* (Sunday, holiday, window, attempt limit) holds, and a call that ends at a
\* failing gate returns the result and logs the attempt with its reason.
C14_OutcomesAreResults ==
    [][ \A s \in Students : \A k \in Slots :
          /\ (post_mark(s, k) /\ lastResp'.kind = "HTTP 400") =>
                ~(lastResp'.detail.blockers \subseteq VerificationBlockers)
          /\ \A input \in MarkInputs :
                (mark_gates(s, k, input) /\ pc'[s][k] = "idle") =>
                    /\ lastResp'.kind = "result"
                    /\ lastResp'.detail.success = FALSE
                    /\ lastResp'.detail.failure_reason \in VerificationOutcomes
                    /\ Len(attendance_attempts') = Len(attendance_attempts) + 1
                    /\ attendance_attempts'[Len(attendance_attempts')].student_id = s
                    /\ attendance_attempts'[Len(attendance_attempts')].failure_reason
                          = lastResp'.detail.failure_reason
      ]_vars

(* ------------------------------ C15 ----------------------------------- *)
\* C15: the attempt INSERT and the record upsert of one mark call commit
\* together or not at all.  In every committed state a successful attempt
\* of student s on day d exists exactly when a PRESENT record of (s, d)
\* exists; and the step that ends a call which passed all gates either
\* returns its result and commits its attempt together with the record of
\* its day, or, when the record write fails after the attempt was inserted,
\* raises and commits neither.
C15_CommitTogether ==
    [][ /\ \A s \in Students : \A d \in Days :
              (SuccessesOf(s, d)' # {}) <=> (\E r \in RecordsOf(s, d)' : r.status = PRESENT)
        /\ \A s \in Students : \A k \in Slots :
              mark_upsert(s, k) =>
                  \/ /\ attendance_attempts' = Append(attendance_attempts, req[s][k].attempt)
                     /\ lastResp'.kind = "result"
                     /\ \E rec \in attendance_records' :
                           /\ rec.student_id = s
                           /\ rec.attendance_date = req[s][k].today
                           /\ rec.status = PRESENT
                           /\ rec.marked_at = <<req[s][k].today, req[s][k].now>>
                  \/ /\ attendance_attempts' = attendance_attempts
                     /\ attendance_records' = attendance_records
                     /\ lastResp'.kind # "result"
      ]_vars

\* The record INSERT of a call failed after its attempt was inserted: the
\* call raised, and the log holds the one successful attempt of the call
\* that wrote the record.
C15_Witness ==
    \E s \in Students : \E d \in Days :
        /\ lastResp = Resp("mark", "IntegrityError", s)
        /\ Cardinality(SuccessesOf(s, d)) = 1
        /\ \E r \in RecordsOf(s, d) : r.status = PRESENT
        /\ \A k \in Slots : pc[s][k] = "idle"

(* ------------------------------ C16 ----------------------------------- *)
\* C16 (as claimed): the attempt log is append-only: no step of the
\* attendance subsystem (mark, pre-check, photo review, geofence, window
\* and holiday administration, geofence deletion included) removes an
\* attempt or changes a field of an attempt once written.
C16_AppendOnly ==
    [][ /\ Len(attendance_attempts') >= Len(attendance_attempts)
        /\ \A i \in DOMAIN attendance_attempts :
              attendance_attempts'[i] = attendance_attempts[i]
      ]_vars

(* ------------------------------ C17 ----------------------------------- *)
\* The window of the example: 09:00-09:30 on days 0..5, for every student.
ExampleWindow(w) ==
    /\ w.start_time = 540 /\ w.end_time = 570
    /\ w.days_of_week = {0, 1, 2, 3, 4, 5}
    /\ w.student_category = None /\ w.is_active

\* C17: with windows that carry no category, the window check of the
\* pre-check answers true exactly when some active window has the current
\* weekday in days_of_week and start_time <= now <= end_time, both bounds
\* included; with the window 09:00-09:30 on days 0..5 alone, 09:00, 09:15
\* and 09:30 on a Wednesday (or Tuesday) are open, 08:59 and 09:31 are
\* closed, and every time on a Sunday is closed.
C17_WindowCheck ==
    [][ \A s \in Students :
          (/\ pre_check_attendance(s)
           /\ \A w \in attendance_windows : w.student_category = None) =>
             /\ lastResp'.detail.within_time_window =
                   (\E w \in attendance_windows :
                       /\ w.is_active
                       /\ weekday(today) \in w.days_of_week
                       /\ ~(now < w.start_time)
                       /\ ~(now > w.end_time))
             /\ (\E w \in attendance_windows :
                     ExampleWindow(w) /\ attendance_windows = {w}) =>
                   lastResp'.detail.within_time_window =
                       (today \in {3, 4} /\ now \in {540, 555, 570})
      ]_vars

\* The pre-check of a Wednesday 09:30 with the example window alone
\* answered that the window is open.
C17_Witness ==
    /\ \E w \in attendance_windows : ExampleWindow(w) /\ attendance_windows = {w}
    /\ today = 4
    /\ now = 570
    /\ lastResp.op = "pre-check"
    /\ lastResp.kind = "result"
    /\ lastResp.detail.within_time_window = TRUE

(* ------------------------------ C18 ----------------------------------- *)
\* C18 (as claimed): a window whose student_category is set applies only to
\* the students of that category and a window without category applies to
\* every student: the window check of a student answers true exactly when
\* an active window that is uncategorised or of the student's own category
\* is open, so a student without category is never admitted by a
\* category-specific window.
C18_CategoryApplies ==
    [][ \A s \in Students :
          pre_check_attendance(s) =>
              lastResp'.detail.within_time_window = ApplicableWindowOpen(s)
      ]_vars

(* ------------------------------ C19 ----------------------------------- *)
\* The dates of [start, end] that are neither a Sunday nor an active holiday.
WorkingDaysIn(start, end) ==
    {d \in start..end :
        /\ d % 7 # 1
        /\ ~(\E h \in holidays : h.date = d /\ h.is_active)}

PresentIn(s, start, end) ==
    {r \in attendance_records :
        r.student_id = s /\ r.attendance_date \in start..end /\ r.status = PRESENT}

\* C19: for every student, range, record table and holiday table the
\* statistics answered by a step give working_days = the number of dates of the range that are
\* neither a Sunday nor an active holiday, present_days = the number of the
\* student's PRESENT records of the range, absent_days = max(0, working_days
\* - present_days) and percentage = present_days / working_days * 100 to
\* the nearest hundredth, 0 without working days; a week with one Sunday,
\* one holiday and four PRESENT records gives 5, 4, 1 and 80.00.
C19_Stats ==
    [][ lastResp'.op = "stats" =>
            LET out == lastResp'.detail
                s == out.student_id
                range == <<out.start_date, out.end_date>>
                w == Cardinality(WorkingDaysIn(range[1], range[2]))
                p == Cardinality(PresentIn(s, range[1], range[2]))
            IN /\ range \in StatsRanges
               /\ out.total_working_days = w
               /\ out.present_days = p
               /\ out.absent_days = (IF w > p THEN w - p ELSE 0)
               /\ w = 0 => out.attendance_percentage = 0
               /\ w > 0 =>
                     /\ 2 * (out.attendance_percentage * w - p * 10000) <= w
                     /\ 2 * (p * 10000 - out.attendance_percentage * w) <= w
               /\ (range = <<0, 6>> /\ w = 5 /\ p = 4) =>
                     /\ out.absent_days = 1
                     /\ out.attendance_percentage = 8000
      ]_vars

\* The statistics of a week with one Sunday, one active holiday on a working
\* day and four PRESENT records on working days: 5, 4, 1 and 80.00.
C19_Witness ==
    /\ lastResp.op = "stats"
    /\ lastResp.detail.start_date = 0
    /\ lastResp.detail.end_date = 6
    /\ \E h \in holidays : h.is_active /\ h.date # 1
    /\ Cardinality(PresentIn(lastResp.detail.student_id, 0, 6)
                     \cap {r \in attendance_records :
                              r.attendance_date \in WorkingDaysIn(0, 6)}) = 4
    /\ lastResp.detail.total_working_days = 5
    /\ lastResp.detail.present_days = 4
    /\ lastResp.detail.absent_days = 1
    /\ lastResp.detail.attendance_percentage = 8000

(* ------------------------------ C20 ----------------------------------- *)
\* C20: the history the statistics return for [start, end] holds, in
\* descending date order, exactly one entry for each working day (no
\* Sunday, no active holiday) of the range that is not after today: the
\* student's record of the day when there is one, otherwise a virtual
\* ABSENT entry with a null id; so no virtual entry stands for a future
\* date, a Sunday or a holiday.
C20_History ==
    [][ lastResp'.op = "stats" =>
            LET out == lastResp'.detail
                s == out.student_id
                history == out.recent_records
                expected == {d \in WorkingDaysIn(out.start_date, out.end_date) : d <= today}
            IN /\ \A i \in DOMAIN history : \A j \in DOMAIN history :
                     i < j => history[i].attendance_date > history[j].attendance_date
               /\ {history[i].attendance_date : i \in DOMAIN history} = expected
               /\ \A i \in DOMAIN history :
                     LET e == history[i]
                         real == {r \in attendance_records :
                                     /\ r.student_id = s
                                     /\ r.attendance_date = e.attendance_date}
                     IN /\ e.student_id = s
                        /\ real # {} =>
                              \E r \in real : e.id = r.id /\ e.status = r.status
                                                /\ e.marked_at = r.marked_at
                        /\ real = {} =>
                              e.id = 0 /\ e.status = ABSENT /\ e.marked_at = <<>>
      ]_vars

\* A history of the whole week asked for before the week is over, with an
\* active holiday on a working day: it holds a real PRESENT entry and a
\* virtual ABSENT one, and nothing for the days after today.
C20_Witness ==
    /\ lastResp.op = "stats"
    /\ lastResp.detail.start_date = 0
    /\ lastResp.detail.end_date = 6
    /\ today = 4
    /\ \E h \in holidays : h.is_active /\ h.date = 3
    /\ \E i \in DOMAIN lastResp.detail.recent_records :
          /\ lastResp.detail.recent_records[i].id = 0
          /\ lastResp.detail.recent_records[i].status = ABSENT
    /\ \E i \in DOMAIN lastResp.detail.recent_records :
          /\ lastResp.detail.recent_records[i].id # 0
          /\ lastResp.detail.recent_records[i].status = PRESENT
    /\ \A i \in DOMAIN lastResp.detail.recent_records :
          lastResp.detail.recent_records[i].attendance_date \in {0, 2, 4}

(* ------------------------------ C21 ----------------------------------- *)
\* C21: a statistics call with a date omitted uses the academic-year start
\* for an omitted start and today for an omitted end, and the end date it
\* uses is never after the configured academic-year end, whether the caller
\* gave the start, the end, or neither.
C21_Defaults ==
    [][\A s \in Students : \A start_date \in DefaultsStarts : \A end_date \in DefaultsEnds :
          ((start_date = NoDate \/ end_date = NoDate)
             /\ get_attendance_stats(s, start_date, end_date))
          => LET configured == get_academic_year_dates(attendance_settings, today)
                 used == lastResp'.detail
             IN /\ start_date = NoDate => used.start_date = configured[1]
                /\ start_date # NoDate => used.start_date = start_date
                /\ used.end_date <= configured[2]
                /\ used.end_date = (IF end_date = NoDate THEN today ELSE end_date)
                     \/ used.end_date = configured[2]]_vars

(* ------------------------------ C22 ----------------------------------- *)
\* C22: every reader of the academic-year settings sees start_date before
\* end_date, also between the two writes of an update; an update with
\* start_date >= end_date is refused and changes no setting.
C22_StartBeforeEnd ==
    [][/\ lastResp'.op = "get-settings"
            => lastResp'.detail.start_date < lastResp'.detail.end_date
       /\ \A a \in Admins : \A start_date \in SettingsDays : \A end_date \in SettingsDays :
            (start_date >= end_date
               /\ update_academic_year_settings(a, start_date, end_date))
            => /\ lastResp'.kind = "ValueError"
               /\ UNCHANGED attendance_settings]_vars

(* ------------------------------ C23 ----------------------------------- *)
\* C23: under holiday create, bulk import and delete no two holidays share
\* a date, and a create_holiday call either creates the holiday, when the
\* date has no active holiday, or is refused with the validation error and
\* leaves the holidays as they were, when the date has one.
C23_CreateHoliday ==
    [][/\ \A h \in holidays' : \A g \in holidays' : h.date = g.date => h = g
       /\ \A date \in HolidayDates :
            create_holiday(date)
            => IF get_by_date(holidays, date) = {}
                 THEN /\ lastResp'.kind = "ok"
                      /\ get_by_date(holidays', date) # {}
               ELSE /\ lastResp'.kind = "ValueError"
                    /\ UNCHANGED holidays]_vars

(* ------------------------------ C24 ----------------------------------- *)
\* The number of blank lines a text begins with
RECURSIVE LeadingBlankLines(_)
LeadingBlankLines(text) ==
    IF text # <<>> /\ Head(text).blank THEN 1 + LeadingBlankLines(Tail(text)) ELSE 0

\* The lines of a text that are neither blank nor a header
EntryLines(text) == {i \in DOMAIN text : ~text[i].blank /\ ~text[i].header}

\* The date a line names, -1 when it names none
LineDate(line, year) ==
    IF line.parts >= 2 /\ line.month_str \in DOMAIN month_map
      THEN date_of(year, month_map[line.month_str], line.day)
    ELSE -1

\* C24: a bulk import works through every line of the text: a line that is
\* neither blank nor a header gives exactly one outcome, one created
\* holiday or one error that carries the line's number in the text (from 1);
\* a line whose date does not parse, already has a holiday or was created
\* earlier in the batch gives an error and creates nothing; the answer
\* holds one outcome per such line.
C24_BulkImport ==
    [][/\ (bulk_import # <<>> /\ bulk_import' # <<>>
             /\ bulk_import'.line_num = bulk_import.line_num + 1)
          => LET line == bulk_import.lines[bulk_import.line_num]
                 number == bulk_import.line_num + LeadingBlankLines(bulk_import.text)
                 holiday_date == LineDate(line, bulk_import.year)
                 created == /\ bulk_import'.created =
                                   Append(bulk_import.created, holiday_date)
                            /\ bulk_import'.errors = bulk_import.errors
                            /\ holidays' = holidays \cup
                                   {[date |-> holiday_date, is_active |-> TRUE]}
                            /\ holidays' # holidays
                 failed == /\ Len(bulk_import'.errors) = Len(bulk_import.errors) + 1
                           /\ SubSeq(bulk_import'.errors, 1, Len(bulk_import.errors))
                                 = bulk_import.errors
                           /\ bulk_import'.errors[Len(bulk_import'.errors)].line = number
                           /\ bulk_import'.created = bulk_import.created
                           /\ UNCHANGED holidays
             IN IF line.blank \/ line.header
                  THEN /\ bulk_import'.created = bulk_import.created
                       /\ bulk_import'.errors = bulk_import.errors
                       /\ UNCHANGED holidays
                ELSE IF \/ holiday_date < 0
                        \/ \E h \in holidays : h.date = holiday_date
                        \/ \E i \in DOMAIN bulk_import.created :
                              bulk_import.created[i] = holiday_date
                  THEN failed
                ELSE created
       /\ (bulk_import # <<>> /\ bulk_import' = <<>>)
          => lastResp'.detail.created_count + lastResp'.detail.error_count
                = Cardinality(EntryLines(bulk_import.text))]_vars

(* ------------------------------ C25 ----------------------------------- *)
\* An active window of the student's weekday and category that has not
\* ended at the current time
WindowStillOpen(s) ==
    \E w \in attendance_windows :
        /\ w.is_active
        /\ weekday(today) \in w.days_of_week
        /\ (w.student_category = None \/ w.student_category = student_category(s))
        /\ now <= w.end_time

\* C25: in the detailed view of a date, a student without a record of the
\* date shows PENDING only when the date is today and an active window that
\* applies to the student (weekday and category) is still open; for a past
\* date such a student shows ABSENT.
C25_PendingOnlyWhileOpen ==
    [][lastResp'.op = "detailed"
       => LET d == lastResp'.detail.date IN
          \A s \in Students :
             (~\E r \in attendance_records : r.student_id = s /\ r.attendance_date = d)
             => /\ lastResp'.detail.students[s] = PENDING
                     => (d = today /\ WindowStillOpen(s))
                /\ d < today => lastResp'.detail.students[s] = ABSENT]_vars

C27_OverlapByOne ==
    \A s \in Students : AttemptsToday(s) <= MAX_DAILY_ATTEMPTS + 1

\* Two requests passed the pre-check at four attempts and both logged
\* theirs: six attempts today.
C27_Witness ==
    \E s \in Students :
        /\ AttemptsToday(s) = MAX_DAILY_ATTEMPTS + 1
        /\ InFlightOf(s) = 0

(* ------------------------------ C28 ----------------------------------- *)
\* The blockers of the pre-check that the administration decides
PolicyBlockers(s) ==
    check_attendance_prerequisites(s).blockers
        \cap {"Holiday", "Profile photo not approved",
              "Outside attendance time window", "Campus geofence not configured"}

\* C28: the pre-check and the gates of one POST /attendance/mark see the
\* same state: whatever the administration does meanwhile (a holiday
\* created, the window deleted, the geofence deleted or switched off), no
\* attempt is logged and no record is marked PRESENT for a student while
\* one of the pre-check's blockers holds for the student.
C28_SameState ==
    [][\A s \in Students :
          (\/ /\ Len(attendance_attempts') = Len(attendance_attempts) + 1
              /\ attendance_attempts'[Len(attendance_attempts')].student_id = s
           \/ \E r \in attendance_records' \ attendance_records :
                 r.student_id = s /\ r.status = PRESENT)
          => PolicyBlockers(s) = {}]_vars

(* ------------------------------ C29 ----------------------------------- *)
\* C29: a photo is created PENDING; its status changes only from PENDING to
\* APPROVED or REJECTED by its one review, and from APPROVED to REJECTED
\* when another photo of the student is approved in its place; a REJECTED
\* photo keeps its status, and the review of a photo that is not PENDING
\* is refused with an error and changes no photo.
C29_PhotoLifecycle ==
    [][/\ \A o \in profile_photos : \E p \in profile_photos' : p.id = o.id
       /\ \A p \in profile_photos' :
            IF ~\E o \in profile_photos : o.id = p.id
              THEN p.status = PENDING /\ ~p.reviewed
            ELSE LET o == PhotoById(profile_photos, p.id) IN
                 \/ p = o
                 \/ /\ o.status = PENDING /\ ~o.reviewed
                    /\ p.status \in {APPROVED, REJECTED} /\ p.reviewed
                 \/ /\ o.status = APPROVED
                    /\ p.status = REJECTED /\ p.rejection_reason = ReplacedReason
                    /\ \E q \in profile_photos' :
                          /\ q.student_id = p.student_id /\ q.id # p.id
                          /\ q.status = APPROVED
                          /\ PhotoById(profile_photos, q.id).status = PENDING
       /\ \A photo_id \in 1..MaxPhotos : \A approved \in BOOLEAN :
          \A reason \in {None, "blurry"} :
            (/\ \E o \in profile_photos : o.id = photo_id /\ o.status # PENDING
             /\ review_profile_photo(photo_id, approved, reason))
            => lastResp'.kind = "ValueError" /\ UNCHANGED profile_photos]_vars

\* A photo was replaced by a newer approved one, and a review of a photo
\* that is not PENDING was refused.
C29_Witness ==
    /\ lastResp.kind = "ValueError"
    /\ \E p \in profile_photos : \E q \in profile_photos :
          /\ p.student_id = q.student_id
          /\ p.status = REJECTED /\ p.rejection_reason = ReplacedReason
          /\ q.status = APPROVED
    /\ \A p \in profile_photos : p.status # PENDING

(* ------------------------------ C30 ----------------------------------- *)
\* The photos of student s in a status
PhotosIn(s, status) == {p \in profile_photos : p.student_id = s /\ p.status = status}

====
